---- MODULE Spec2Model ----
(***************************************************************************)
(* Turn execution and memory lifecycle of nanobot's AgentLoop              *)
(* (src/nanobot/agent/loop.py) with the summarizer of                      *)
(* src/nanobot/agent/compaction.py, the message-list helpers of            *)
(* src/nanobot/agent/context.py and the daily-note store of                *)
(* src/nanobot/agent/memory.py.                                            *)
(*                                                                         *)
(* One consumer (AgentLoop.run) takes one inbound message at a time and    *)
(* runs it to completion, so the program is one sequential process; pc is  *)
(* its position.  Every await on an external collaborator (the provider,   *)
(* a tool, the daily-note store) is a step whose outcome is drawn from the *)
(* outcomes that collaborator can produce.                                 *)
(***************************************************************************)
EXTENDS Integers, Sequences, FiniteSets, TLC

(***************************************************************************)
(* Bounds of the model.                                                    *)
(***************************************************************************)
MaxTurns == 3
MaxThreshold == 2
MaxKeep == 2
MaxHistory == 3
MaxToolCalls == 2
MaxIterations == 2
MaxChatParts == 2
MaxBlank == 1
MaxNotes == 4
MaxBuildHistory == 2
MaxDirectTurns == 3
MaxDefs == 2
MaxLines == 3
MaxChunks == 4
MaxEntries == 3
MaxInbound == 3
MaxSends == 2

(***************************************************************************)
(* Program constants.                                                      *)
(***************************************************************************)
\* loop.py:207
max_flush_iterations == 5

\* memory_search.py:11-13
CHUNK_TOKENS == 400
CHUNK_OVERLAP == 80
CHARS_PER_TOKEN == 4

\* a variant of loop.py:42 without the dated-note tool
MEMORY_WRITE_TOOLS_NoDaily == {"remember_core", "organize_memory", "remember"}

\* loop.py:42
MEMORY_WRITE_TOOLS == {"remember_core", "append_daily", "organize_memory", "remember"}

\* loop.py:46-49
TOOLS_HIDDEN_FROM_LLM ==
  {"memory_search", "web_search", "web_fetch",
   "remember", "remember_core", "append_daily", "organize_memory", "memory_get"}

\* loop.py:52-53
EMPTY_CONTENT_FALLBACK_USER == "EMPTY_CONTENT_FALLBACK_USER"
EMPTY_CONTENT_RETRY_PROMPT == "EMPTY_CONTENT_RETRY_PROMPT"

\* loop.py:531 and loop.py:665: the replies used when the loop ends with no final content
NO_CONTENT_REPLY == "NO_CONTENT_REPLY"
BACKGROUND_DONE_REPLY == "BACKGROUND_DONE_REPLY"

\* loop.py:156-190: the registry in registration order (memory_search_enabled)
RegisteredTools ==
  <<"read_file", "write_file", "edit_file", "list_dir",
    "remember", "remember_core", "append_daily", "organize_memory",
    "memory_search", "memory_get", "exec", "web_search", "web_fetch",
    "message", "spawn">>

\* The tool names a model response may carry in this model: one tool that is
\* offered and writes no memory, and the dated-note tool.  The provider's
\* tool calls are not validated against the offered catalog (loop.py:233-236,
\* loop.py:497-501), so a response may name any registered tool.
RequestableTools == {"read_file", "append_daily"}

(***************************************************************************)
(* Python slices with a negated bound, as _maybe_compact_session uses them.*)
(* -0 is 0 in Python: s[-0:] is the whole list and s[:-0] is empty.        *)
(***************************************************************************)
SliceLast(s, k) ==
  IF k = 0 \/ k >= Len(s) THEN s ELSE SubSeq(s, Len(s) - k + 1, Len(s))

SliceButLast(s, k) ==
  IF k = 0 \/ k >= Len(s) THEN <<>> ELSE SubSeq(s, 1, Len(s) - k)

SeqRange(s) == {s[i] : i \in 1..Len(s)}

(***************************************************************************)
(* Session (nanobot.session.manager.Session): messages, compaction_summary,*)
(* compaction_count, memory_flush_compaction_count.  A stored message is   *)
(* [role, id, content]; id stands for the identity of the message, and the *)
(* text of a reply, which the engine never reads, is "reply".  The         *)
(* optional memory_flush_compaction_count is a set: {} is None.            *)
(***************************************************************************)
NoSummary == [kind |-> "none", n |-> 0]

NewSession ==
  [messages |-> <<>>,
   compaction_summary |-> NoSummary,
   compaction_count |-> 0,
   memory_flush_compaction_count |-> {}]

\* Session.get_history(max_messages): the most recent max_messages messages
get_history(s, max_messages) ==
  IF Len(s.messages) > max_messages
    THEN SliceLast(s.messages, max_messages)
    ELSE s.messages

\* Session.add_message(role, content)
add_message(s, role, id, content) ==
  [s EXCEPT !.messages = Append(@, [role |-> role, id |-> id, content |-> content])]

(***************************************************************************)
(* compaction.summarize_messages.  outcome is what provider.chat does:     *)
(* "text" (non-empty content), "empty" (empty or whitespace content) or    *)
(* "raise".  The result is always a non-empty string.                      *)
(***************************************************************************)
SummaryOutcomes == {"text", "empty", "raise"}

summarize_messages(messages, outcome) ==
  IF messages = <<>>
    THEN [kind |-> "no_prior_history", n |-> 0]
    ELSE IF outcome = "text"
      THEN [kind |-> "model", n |-> Len(messages)]
      ELSE [kind |-> "unavailable", n |-> Len(messages)]

\* loop.py:338: f"Prior summary: {prior}", a text that carries the summary
PriorSummaryText(prior) == [prefix |-> "Prior summary: ", summary |-> prior]

\* a variant of loop.py:335-338 that leaves the prior summary out
SummarizerInput_NoPrior(prior, old) == old

\* loop.py:335-338: the prior summary is prepended to old as one user message
SummarizerInput(prior, old) ==
  IF prior # NoSummary
    THEN <<[role |-> "user", id |-> 0, content |-> PriorSummaryText(prior)]>> \o old
    ELSE old

(***************************************************************************)
(* AgentLoop._get_llm_tool_definitions: the registered tools without the   *)
(* hidden ones, in registry order.                                         *)
(***************************************************************************)
IsOffered(name) == name \notin TOOLS_HIDDEN_FROM_LLM

\* a tool definition in the OpenAI format is [function, name]: the name
\* inside its "function" object and its top-level name, "" where there is
\* none (or an empty one, or "function" is no object)
ToolDefinition(name) == [function |-> name, name |-> ""]

\* loop.py:129-136: the name of a definition, "None" when it has none
_tool_name_from_definition(d) ==
  IF d.function # "" THEN d.function
  ELSE IF d.name # "" THEN d.name
  ELSE "None"

\* a variant of loop.py:143-145 that drops a definition without a name
KeptForLlm_NamedOnly(d) ==
  LET name == _tool_name_from_definition(d)
  IN name # "None" /\ IsOffered(name)

\* loop.py:142-149: whether a definition goes into the list for the model
KeptForLlm(d) ==
  LET name == _tool_name_from_definition(d)
  IN name = "None" \/ IsOffered(name)

\* loop.py:140-154 on the definitions all_defs of the registry
LlmToolDefinitions(all_defs) == SelectSeq(all_defs, KeptForLlm)

\* the names of the list the engine's registry gives
_get_llm_tool_definitions ==
  LET out == LlmToolDefinitions([i \in 1..Len(RegisteredTools) |->
                                  ToolDefinition(RegisteredTools[i])])
  IN [i \in 1..Len(out) |-> _tool_name_from_definition(out[i])]

(***************************************************************************)
(* MemoryStore.append_daily and the notes written to today's file.  A note *)
(* is [phrase, n]: the fixed wording it carries and the number inside it.  *)
(***************************************************************************)
\* memory_tools.py:156-161: the note text is the model's, any text
ToolNote == [phrase |-> "model text", n |-> 0]

\* loop.py:251-255: "Session notes: conversation reached compaction threshold
\* ({n} messages). ..." with n = len(session.messages)
FallbackNote(s) == [phrase |-> "compaction threshold", n |-> Len(s.messages)]

append_daily(file, note) == Append(file, note)

\* a variant of the test of loop.py:249 with the flag inverted
FallbackNeeded_Inverted(called, hist) == called /\ hist # <<>>

\* loop.py:249
FallbackNeeded(called, hist) == (~called) /\ hist # <<>>

(***************************************************************************)
(* _maybe_compact_session, lines 314-321 and 324-325.                      *)
(***************************************************************************)
\* a variant of the test of loop.py:317 that fires at the threshold
\* a variant of loop.py:317-319 that lets one more message pass
CompactionFires_Late(c, s) ==
  /\ c.compaction_enabled
  /\ Len(s.messages) > c.compaction_threshold + 1
  /\ c.compaction_keep_recent < Len(s.messages)

CompactionFires_AtThreshold(c, s) ==
  /\ c.compaction_enabled
  /\ Len(s.messages) >= c.compaction_threshold
  /\ c.compaction_keep_recent < Len(s.messages)

CompactionFires(c, s) ==
  /\ c.compaction_enabled
  /\ Len(s.messages) > c.compaction_threshold
  /\ c.compaction_keep_recent < Len(s.messages)

FlushDue(c, s) ==
  /\ c.compaction_memory_flush_enabled
  /\ s.memory_flush_compaction_count # {s.compaction_count}

\* a variant of loop.py:350 that leaves the count as it was
IncrementCompactionCount_Stuck(n) == n

\* a variant of loop.py:350 that counts a compaction twice
IncrementCompactionCount_Twice(n) == n + 2

\* loop.py:350
IncrementCompactionCount(n) == n + 1

\* loop.py:332-333
OldMessages(s, keep) == SliceButLast(s.messages, keep)

RecentMessages(s, keep) == SliceLast(s.messages, keep)

(***************************************************************************)
(* ContextBuilder: the message list of a turn.  An entry is                *)
(* [role, id, name, content, calls]; calls holds the ids of the tool calls *)
(* of an assistant message, id the tool_call_id of a tool message.         *)
(***************************************************************************)
Entry(role, id, name, content, calls) ==
  [role |-> role, id |-> id, name |-> name, content |-> content, calls |-> calls]

HistoryEntry(m) == Entry(m.role, m.id, "", m.content, <<>>)

\* context.py:153-159: the system prompt, with a section for the prior
\* summary and one for the recalled memories when there are any
\* the empty string as a summary
EmptySummary == [kind |-> "empty", n |-> 0]

\* Python's truth value of an optional text: None and "" are false
HasSummary(compaction_summary) == compaction_summary \notin {NoSummary, EmptySummary}

HasRecall(memory_recall) == memory_recall \notin {"None", ""}

\* context.py:156 and 158: a section of the system prompt is a header and
\* the text under it; a prompt has a set of them for the summary and one for
\* the recall, empty when the section is absent
SummarySection(text) == {[header |-> "## Prior conversation summary", text |-> text]}

RecallSection(text) ==
  {[header |-> "## Relevant memories (from semantic search)", text |-> text]}

\* a variant of context.py:155-158 that tests 'is not None'
SystemPrompt_NotNone(compaction_summary, memory_recall) ==
  [base |-> "system_prompt",
   summary |-> IF compaction_summary # NoSummary
                 THEN SummarySection(compaction_summary) ELSE {},
   recall |-> IF memory_recall # "None" THEN RecallSection(memory_recall) ELSE {}]

\* context.py:154-158: build_system_prompt's text, then the summary section,
\* then the recall section
SystemPrompt(compaction_summary, memory_recall) ==
  [base |-> "system_prompt",
   summary |-> IF HasSummary(compaction_summary)
                 THEN SummarySection(compaction_summary) ELSE {},
   recall |-> IF HasRecall(memory_recall) THEN RecallSection(memory_recall) ELSE {}]

\* context.py:128-168 (the system prompt text itself is assembled elsewhere)
build_messages(hist, current_message, compaction_summary, memory_recall) ==
  <<Entry("system", 0, "", SystemPrompt(compaction_summary, memory_recall), <<>>)>>
    \o [i \in 1..Len(hist) |-> HistoryEntry(hist[i])]
    \o <<Entry("user", 0, "", current_message, <<>>)>>

\* context.py:215-244
add_assistant_message(messages, content, tool_calls) ==
  Append(messages,
         Entry("assistant", 0, "", content, [i \in 1..Len(tool_calls) |-> tool_calls[i].id]))

\* a variant of context.py:188-213 that drops the tool_call_id
add_tool_result_NoId(messages, tool_call_id, tool_name, result) ==
  Append(messages, Entry("tool", 0, tool_name, result, <<>>))

\* context.py:188-213
add_tool_result(messages, tool_call_id, tool_name, result) ==
  Append(messages, Entry("tool", tool_call_id, tool_name, result, <<>>))

(***************************************************************************)
(* Text.  A channel name, a chat id and a session key are sequences of     *)
(* tokens, ":" being the separator; a message content is one of "msg", ""  *)
(* and a blank string.                                                     *)
(***************************************************************************)
\* str.strip() on the contents explored
Strip(text) == IF text = "   " THEN "" ELSE text

\* a variant of the parse that splits at the last separator
ParseOrigin_LastSeparator(chat_id) ==
  IF \E i \in 1..Len(chat_id) : chat_id[i] = ":"
    THEN LET at == CHOOSE i \in 1..Len(chat_id) :
                     /\ chat_id[i] = ":"
                     /\ \A j \in (i + 1)..Len(chat_id) : chat_id[j] # ":"
         IN [channel |-> SubSeq(chat_id, 1, at - 1),
             chat_id |-> SubSeq(chat_id, at + 1, Len(chat_id))]
    ELSE [channel |-> <<"cli">>, chat_id |-> chat_id]

\* loop.py:559-567: chat_id.split(":", 1), or the default channel "cli"
ParseOrigin(chat_id) ==
  IF \E i \in 1..Len(chat_id) : chat_id[i] = ":"
    THEN LET at == CHOOSE i \in 1..Len(chat_id) :
                     /\ chat_id[i] = ":"
                     /\ \A j \in 1..(i - 1) : chat_id[j] # ":"
         IN [channel |-> SubSeq(chat_id, 1, at - 1),
             chat_id |-> SubSeq(chat_id, at + 1, Len(chat_id))]
    ELSE [channel |-> <<"cli">>, chat_id |-> chat_id]

\* loop.py:570: f"{origin_channel}:{origin_chat_id}"
SessionKey(channel, chat_id) == channel \o <<":">> \o chat_id

\* InboundMessage.session_key (loop.py:405): the same text made of the
\* message's own channel and chat_id
InboundSessionKey(m) == SessionKey(m.channel, m.chat_id)

(***************************************************************************)
(* AgentLoop._recall_memory (loop.py:283-306).  outcome is what            *)
(* tool.index.search does: "results", "empty" (no results) or "raised".    *)
(* The result is [search, memory_recall]: what became of the search        *)
(* ("none" when it was not called) and the returned text.                  *)
(***************************************************************************)
SearchOutcomes == {"results", "empty", "raised"}

\* a variant without the test of loop.py:292-293
_recall_memory_NoBlankTest(registered, query, outcome) ==
  IF ~registered
    THEN [search |-> "none", memory_recall |-> "None"]
    ELSE [search |-> outcome,
          memory_recall |-> IF outcome = "results" THEN "recall" ELSE "None"]

_recall_memory(registered, query, outcome) ==
  IF ~registered
    THEN [search |-> "none", memory_recall |-> "None"]
    ELSE IF query = "" \/ Strip(query) = ""
      THEN [search |-> "none", memory_recall |-> "None"]
      ELSE [search |-> outcome,
            memory_recall |-> IF outcome = "results" THEN "recall" ELSE "None"]

(***************************************************************************)
(* State.                                                                  *)
(***************************************************************************)
VARIABLES
  conv,                 \* the conversation followed: its channel and chat_id
  msg,                  \* the inbound message of the turn
  session_key,          \* the key the turn's session was loaded with
  memory_recall,        \* the turn's memory_recall ("None" or the recalled text)
  search,               \* what became of the index search of _recall_memory
  cfg,                  \* the AgentLoop constructor arguments (loop.py:72-110)
  session,              \* the Session object of the conversation
  stored,               \* what SessionManager.save last persisted
  reindex_calls,        \* _reindex_memory_search calls of the current turn
  pc,                   \* position of the consumer
  turns,                \* inbound messages dequeued so far
  kind,                 \* "user" or "system": the inbound message's channel
  call,                 \* record of the current _maybe_compact_session call
  flush_log,            \* compaction_count at each _run_memory_flush_turn call
  history,              \* _run_memory_flush_turn: the history shown to the model
  append_daily_called,  \* _run_memory_flush_turn: append_daily_called
  flush_iter,           \* _run_memory_flush_turn: model calls made so far
  pending,              \* tool calls of the current response not yet executed
  llm_tools,            \* the tools argument of the latest provider.chat call
  llm_messages,         \* the turn's message list (messages)
  iteration,            \* the turn's iteration counter
  final_content,        \* the turn's final_content ("None" while unset)
  memory_tools_called,  \* the turn's memory_tools_called
  empty_retry_done,     \* the turn's empty_retry_done
  responses,            \* what each provider.chat call of the turn's loop did
  index_update,         \* the index update of the turn's closing reindex
  outbound              \* outbound messages of the turn (published or returned)

\* The state of the library-level specifications (DailySpec, ContextSpec) and
\* of the entry-point specification (DirectSpec); Spec leaves it alone.
VARIABLES
  today_file,           \* DailySpec: memory/YYYY-MM-DD.md of today
  appended,             \* DailySpec: the notes passed to append_daily, in call order
  build_args,           \* ContextSpec: the arguments of a build_messages call
  built,                \* ContextSpec: what the call returned (<<>> before it)
  task,                 \* DirectSpec: the turn each asyncio task is running
  sessions,             \* DirectSpec: SessionManager's sessions, by key
  registry,             \* CatalogSpec: the definitions ToolRegistry.get_definitions returns
  catalog,              \* CatalogSpec: what _get_llm_tool_definitions returned
  text_lines,           \* ChunkSpec: the length of each line of the text given to _chunk_text
  pos,                  \* ChunkSpec: _chunk_text's pos
  chunks,               \* ChunkSpec: the start_line of each chunk appended so far
  memory_file,          \* OrganizeSpec: MEMORY.md as [exists, blocks], the blocks between its --- lines
  moved_daily,          \* OrganizeSpec: the entries organize_long_term appended to daily files
  remembered,           \* OrganizeSpec: the contents passed to append_core, in call order
  _thinking_messages,   \* FeishuSpec: the entry of one chat_id, {} or {[message_id, timer_task]}
  timer_tasks,          \* FeishuSpec: the state of each _send_thinking task, in creation order
  thinking_posts,       \* FeishuSpec: the placeholder message of each task, as the chat shows it
  scheduling,           \* FeishuSpec: the _schedule_thinking_message calls suspended at their await
  sending,              \* FeishuSpec: the send() call in progress, {} or {[thinking_message_id, kind]}
  sends,                \* FeishuSpec: the number of send() calls begun
  entry_cleared         \* FeishuSpec: "popped"/"returned" while no inbound message came since a send or cancel popped the entry, else "no"

vars ==
  <<conv, msg, session_key, memory_recall, search,
    cfg, session, stored, reindex_calls, pc, turns, kind, call, flush_log,
    history, append_daily_called, flush_iter, pending, llm_tools, llm_messages,
    iteration, final_content, memory_tools_called, empty_retry_done, responses,
    index_update, outbound,
    today_file, appended, build_args, built, task, sessions,
    registry, catalog,
    text_lines, pos, chunks,
    memory_file, moved_daily, remembered,
    _thinking_messages, timer_tasks, thinking_posts, scheduling, sending, sends, entry_cleared>>

engineVars ==
  <<conv, msg, session_key, memory_recall, search,
    cfg, session, stored, reindex_calls, pc, turns, kind, call, flush_log,
    history, append_daily_called, flush_iter, pending, llm_tools, llm_messages,
    iteration, final_content, memory_tools_called, empty_retry_done, responses,
    index_update, outbound>>
dailyVars == <<today_file, appended>>
contextVars == <<build_args, built>>
directVars == <<task, sessions>>
catalogVars == <<registry, catalog>>
chunkVars == <<text_lines, pos, chunks>>
organizeVars == <<memory_file, moved_daily, remembered>>
feishuVars == <<_thinking_messages, timer_tasks, thinking_posts, scheduling, sending, sends, entry_cleared>>
auxVars == <<dailyVars, contextVars, directVars, catalogVars, chunkVars, organizeVars, feishuVars>>
sessionVars == <<session, stored>>
flushVars == <<history, append_daily_called, flush_iter>>
turnVars ==
  <<llm_messages, iteration, final_content, memory_tools_called, empty_retry_done,
    responses, index_update, outbound>>
inboundVars == <<conv, msg, session_key, memory_recall, search>>

(***************************************************************************)
(* The configurations explored.  Every compaction setting is explored with *)
(* one round of the tool loop per turn and the memory_search tool          *)
(* registered; longer tool loops are explored with compaction disabled,    *)
(* and an engine without memory_search with compaction disabled and one    *)
(* round of the tool loop.  With compaction disabled the other compaction  *)
(* settings are never read; max_history_messages is 1 or MaxHistory, and   *)
(* MaxHistory where no flush reads the history.                            *)
(***************************************************************************)
ConfigSpace ==
  [compaction_enabled : BOOLEAN,
   compaction_threshold : 0..MaxThreshold,
   compaction_keep_recent : 0..MaxKeep,
   compaction_memory_flush_enabled : BOOLEAN,
   max_history_messages : 1..MaxHistory,
   max_iterations : 1..MaxIterations,
   memory_search_enabled : BOOLEAN]

DeepLoopConfig(c) == ~c.compaction_enabled

\* compaction disabled and one round of the tool loop
PlainConfig(c) == DeepLoopConfig(c) /\ c.max_iterations = 1

Configs ==
  {c \in ConfigSpace :
     /\ c.max_iterations = 1 \/ DeepLoopConfig(c)
     /\ c.memory_search_enabled \/ PlainConfig(c)
     /\ c.max_history_messages = MaxHistory
          \/ (c.max_history_messages = 1 /\ c.compaction_memory_flush_enabled)
     /\ c.compaction_enabled
          \/ (c.compaction_threshold = 0 /\ c.compaction_keep_recent = 0
              /\ ~c.compaction_memory_flush_enabled)}

NoCall ==
  [fired |-> FALSE,
   before |-> NewSession,
   flushed |-> FALSE,
   flush_raised |-> FALSE,
   flush_returned |-> FALSE,
   daily_writes |-> <<>>,
   fallback_notes |-> <<>>,
   summarizer_input |-> <<>>,
   flush_responses |-> <<>>,
   summary_failed |-> FALSE]

\* the channels a conversation can be on, and the chat ids: "42", "42:42", ...
Channels == {<<"cli">>, <<"tg">>}

RECURSIVE ChatId(_)
ChatId(n) == IF n = 1 THEN <<"42">> ELSE <<"42", ":">> \o ChatId(n - 1)

HasSeparator(text) == \E i \in 1..Len(text) : text[i] = ":"

\* The conversations explored: cli:42 everywhere and, with compaction
\* disabled and one round of the tool loop, the cli conversations of every
\* chat id and a conversation of every other channel.
Convs(c) ==
  IF PlainConfig(c)
    THEN [channel : {<<"cli">>}, chat_id : {ChatId(n) : n \in 1..MaxChatParts}]
         \cup [channel : Channels \ {<<"cli">>}, chat_id : {ChatId(1)}]
    ELSE {[channel |-> <<"cli">>, chat_id |-> ChatId(1)]}

\* the stored user messages that came from an empty or blank inbound content
BlankStored(s) ==
  {i \in 1..Len(s.messages) :
     s.messages[i].content \in {"", "   ", "[System] ", "[System]    "}}

\* the message contents explored: a text, and with compaction disabled and
\* one round of the tool loop the empty and the blank content too, until
\* the session holds MaxBlank of them
Contents(c, s) ==
  IF PlainConfig(c) /\ Cardinality(BlankStored(s)) < MaxBlank
    THEN {"msg", "", "   "}
    ELSE {"msg"}

\* what the index search is explored to do: anything with compaction disabled
\* and one round of the tool loop, and elsewhere the index is empty
IndexBehaviours(c) == IF PlainConfig(c) THEN SearchOutcomes ELSE {"empty"}

NoMessage == [channel |-> <<>>, chat_id |-> <<>>, content |-> ""]

\* The inbound messages of conversation cv: a user message on its channel,
\* a system message whose chat_id names the origin as "channel:chat_id" and,
\* for a cli conversation with compaction disabled and one round of the tool
\* loop, a system message whose chat_id is the bare chat id.
Inbound(c, cv, s) ==
  {[channel |-> cv.channel, chat_id |-> cv.chat_id, content |-> t] :
     t \in Contents(c, s)}
  \cup {[channel |-> <<"system">>, chat_id |-> SessionKey(cv.channel, cv.chat_id),
          content |-> t] : t \in Contents(c, s)}
  \cup (IF PlainConfig(c) /\ cv.channel = <<"cli">> /\ ~HasSeparator(cv.chat_id)
          THEN {[channel |-> <<"system">>, chat_id |-> cv.chat_id, content |-> t] :
                  t \in Contents(c, s)}
          ELSE {})

(***************************************************************************)
(* MemoryStore.append_today (memory.py:32-44).  A file is [exists, text];  *)
(* a text is a sequence of tokens, and a note is a text.                   *)
(***************************************************************************)
NoFile == [exists |-> FALSE, text |-> <<>>]

\* memory.py:41: f"# {today_date()}\n\n"
DateHeader == <<"# today", "\n\n">>

\* a variant of memory.py:36-42 that writes the header with every note
append_today_HeaderEachTime(file, content) ==
  [exists |-> TRUE, text |-> file.text \o DateHeader \o content]

append_today(file, content) ==
  [exists |-> TRUE,
   text |-> IF file.exists
              THEN file.text \o <<"\n">> \o content
              ELSE DateHeader \o content]

\* the notes explored: one line, several lines, nothing
Notes == {<<"first">>, <<"second">>, <<"a", "\n", "b">>, <<>>}

DailyIdle ==
  /\ today_file = NoFile
  /\ appended = <<>>

(***************************************************************************)
(* The arguments of a build_messages call (context.py:128-168).            *)
(***************************************************************************)
Histories ==
  UNION {[1..n -> {[role |-> "user", id |-> 1, content |-> "msg"],
                   [role |-> "assistant", id |-> 2, content |-> "reply"]}] :
           n \in 0..MaxBuildHistory}

BuildInputs ==
  [history : Histories,
   current_message : {"msg", ""},
   compaction_summary : {NoSummary, EmptySummary, [kind |-> "model", n |-> 1]},
   memory_recall : {"None", "", "recall"}]

NoArgs ==
  [history |-> <<>>, current_message |-> "", compaction_summary |-> NoSummary,
   memory_recall |-> "None"]

ContextIdle ==
  /\ build_args = NoArgs
  /\ built = <<>>

(***************************************************************************)
(* The asyncio tasks that run turns: the consumer run() and a caller of    *)
(* process_direct.  A task is [pc, key, context]: where it stands, the key *)
(* of the session it loaded and the history its context was built from;    *)
(* sessions is the SessionManager's cache, a Session per key.              *)
(***************************************************************************)
Tasks == {"run", "direct"}

\* the session keys explored: the conversation's and process_direct's default
DirectKeys == {<<"cli", ":", "42">>, <<"cli", ":", "direct">>}

NoTurn == [pc |-> "idle", key |-> <<>>, context |-> <<>>]

DirectIdle ==
  /\ task = [t \in Tasks |-> NoTurn]
  /\ sessions = [k \in DirectKeys |-> NewSession]

(***************************************************************************)
(* The registries given to _get_llm_tool_definitions (loop.py:138-154).    *)
(***************************************************************************)
\* the definitions explored: named inside "function", at the top level, in
\* both places or nowhere; memory_search and web_fetch are hidden names
DefinitionShapes ==
  [function : {"", "read_file", "memory_search"}, name : {"", "exec", "web_fetch"}]

Registries == UNION {[1..n -> DefinitionShapes] : n \in 0..MaxDefs}

CatalogIdle ==
  /\ registry = <<>>
  /\ catalog = [called |-> FALSE, out |-> <<>>]

(***************************************************************************)
(* _chunk_text (memory_search.py:16-47).  A line is modelled by its length *)
(* in characters; pos counts the lines consumed, as in the code.           *)
(***************************************************************************)
\* memory_search.py:28-34: the number of lines the inner loop takes from pos
\* on; len is current_len and n is len(current)
RECURSIVE TakenLines(_, _, _, _)
TakenLines(lines, at, len, n) ==
  IF at < Len(lines) /\ (len < CHUNK_TOKENS * CHARS_PER_TOKEN \/ n = 0)
    THEN TakenLines(lines, at + 1, len + lines[at + 1] + 1, n + 1)
    ELSE n

\* memory_search.py:38-45: overlap_count, counted from the chunk's last line
\* down to line j; len is overlap_len
RECURSIVE OverlapCount(_, _, _, _)
OverlapCount(current, j, len, count) ==
  IF j < 1 THEN count
  ELSE IF len + current[j] + 1 >= CHUNK_OVERLAP * CHARS_PER_TOKEN THEN count + 1
  ELSE OverlapCount(current, j - 1, len + current[j] + 1, count + 1)

\* the line lengths explored: an empty line, a short line, a line just under
\* the overlap size and lines around the chunk target
LineLengths == {0, 99, 318, 1500, 1600}

ChunkIdle ==
  /\ text_lines = <<>>
  /\ pos = 0
  /\ chunks = <<>>

(***************************************************************************)
(* MemoryStore.append_core and organize_long_term (memory.py:60-68 and     *)
(* 76-192).  MEMORY.md is [exists, blocks]: the blocks that the pattern    *)
(* "\n---+\n" splits its text into, each a sequence of non-blank lines. An  *)
(* entry's content is one line.                                            *)
(***************************************************************************)
HeaderLine == "# Long-term Memory"
PreambleLine == "This file stores core information only (user info, preferences)."
FooterLine == "*This file is automatically updated by nanobot.*"
DateLine == "## 2026-11-02 10:00"

\* the contents explored, and those with a keyword of one of CORE_SECTIONS
EntryContents == {"user name is Ann", "I prefer tea", "the repo is at /srv/x"}
CoreContents == {"user name is Ann", "I prefer tea"}

\* memory.py:60-68
append_core(file, content) ==
  IF file.exists
    THEN [file EXCEPT !.blocks = Append(@, <<DateLine, content>>)]
    ELSE [exists |-> TRUE, blocks |-> <<<<HeaderLine, content>>>>]

\* memory.py:109-127: the content lines of a block, without the date heading
\* of its first line
ContentLines(block) ==
  IF block # <<>> /\ block[1] = DateLine THEN Tail(block) ELSE block

\* memory.py:107-130: whether a block yields an entry; a block that starts
\* with "*" or whose content holds one of skip_phrases does not
YieldsEntry(block) ==
  /\ block # <<>>
  /\ block[1] # FooterLine
  /\ ContentLines(block) # <<>>
  /\ \A i \in 1..Len(ContentLines(block)) :
       ContentLines(block)[i] \notin {HeaderLine, FooterLine}

\* memory.py:132-138 and 146-148: an entry is core when its content holds a
\* keyword of one of the two core categories, which are tried first
IsCoreEntry(content) == \E i \in 1..Len(content) : content[i] \in CoreContents

\* memory.py:152-159: the first occurrence of each core entry
RECURSIVE UniqueCore(_)
UniqueCore(items) ==
  IF items = <<>> THEN <<>>
  ELSE LET before == UniqueCore(SubSeq(items, 1, Len(items) - 1))
           item == items[Len(items)]
       IN IF \E i \in 1..Len(before) : before[i] = item THEN before
          ELSE Append(before, item)

RECURSIVE JoinLines(_)
JoinLines(items) ==
  IF items = <<>> THEN <<>> ELSE Head(items) \o JoinLines(Tail(items))

\* memory.py:76-192 on MEMORY.md and the entries moved so far: the new
\* MEMORY.md and the entries moved
organize_long_term(file, moved) ==
  LET found == SelectSeq(file.blocks, YieldsEntry)
      entries == [i \in 1..Len(found) |-> ContentLines(found[i])]
      unique_core == UniqueCore(SelectSeq(entries, IsCoreEntry))
      non_core == SelectSeq(entries, LAMBDA e : ~IsCoreEntry(e))
  IN IF entries = <<>>
       THEN [file |-> file, moved |-> moved]
       ELSE [file |-> [exists |-> TRUE,
                       blocks |-> <<<<HeaderLine, PreambleLine>> \o JoinLines(unique_core),
                                    <<FooterLine>>>>],
             moved |-> moved \o non_core]

OrganizeIdle ==
  /\ memory_file = [exists |-> FALSE, blocks |-> <<>>]
  /\ moved_daily = <<>>
  /\ remembered = <<>>

(***************************************************************************)
(* FeishuChannel's "thinking" placeholder (feishu.py:268-331, 430-466),    *)
(* for one chat_id.  A _send_thinking task is "sleeping" until the         *)
(* threshold elapses, "posting" while its request is on the way,           *)
(* "responded" once the platform created the message and the task has not  *)
(* run yet, then "done"; cancel() makes it "cancelled" wherever it waits.  *)
(* A task's number is also the message id of the placeholder it posts, and *)
(* message id 0 stands for "".                                             *)
(***************************************************************************)
PendingStates == {"sleeping", "posting", "responded"}

IsPending(t) == timer_tasks[t] \in PendingStates

PendingTimers == {t \in 1..Len(timer_tasks) : IsPending(t)}

\* timer_task.cancel(): CancelledError is thrown at the task's await,
\* feishu.py:284 uncaught, feishu.py:299 caught at 312; a finished task
\* is left as it is
cancel(tasks, t) ==
  IF tasks[t] \in PendingStates THEN [tasks EXCEPT ![t] = "cancelled"] ELSE tasks

\* the kinds of OutboundMessage send() tells apart, feishu.py:443-444
OutboundKinds == {"text", "media", "empty"}

FeishuIdle ==
  /\ _thinking_messages = {}
  /\ timer_tasks = <<>>
  /\ thinking_posts = <<>>
  /\ scheduling = 0
  /\ sending = {}
  /\ sends = 0
  /\ entry_cleared = "no"

\* the engine before its first message, but for cfg and conv
EngineIdle ==
  /\ msg = NoMessage
  /\ session_key = <<>>
  /\ memory_recall = "None"
  /\ search = "none"
  /\ session = NewSession
  /\ stored = NewSession
  /\ reindex_calls = 0
  /\ pc = "idle"
  /\ turns = 0
  /\ kind = "user"
  /\ call = NoCall
  /\ flush_log = <<>>
  /\ history = <<>>
  /\ append_daily_called = FALSE
  /\ flush_iter = 0
  /\ pending = <<>>
  /\ llm_tools = <<>>
  /\ llm_messages = <<>>
  /\ iteration = 0
  /\ final_content = "None"
  /\ memory_tools_called = {}
  /\ empty_retry_done = FALSE
  /\ responses = <<>>
  /\ index_update = "none"
  /\ outbound = <<>>

Init ==
  /\ cfg \in Configs
  /\ conv \in Convs(cfg)
  /\ EngineIdle
  /\ DailyIdle
  /\ ContextIdle
  /\ DirectIdle
  /\ FeishuIdle
  /\ OrganizeIdle
  /\ ChunkIdle
  /\ CatalogIdle

(***************************************************************************)
(* What the provider and the tools can answer.                             *)
(***************************************************************************)
\* the tool names of a response with tool calls, in request order
ToolCallNames == UNION {[1..n -> RequestableTools] : n \in 1..MaxToolCalls}

\* provider-assigned ids, unique within one response
ToolCalls(names, round) ==
  [i \in 1..Len(names) |-> [id |-> round * (MaxToolCalls + 1) + i, name |-> names[i]]]

\* ToolRegistry.execute never raises: it returns the tool's text or an error
\* string.  A successful append_daily writes one note to today's file
\* (memory_tools.py:156-161); a failing one returns its error string and
\* writes nothing.
DailyAfterTool(name, succeeds, file) ==
  IF name = "append_daily" /\ succeeds THEN append_daily(file, ToolNote) ELSE file

(***************************************************************************)
(* AgentLoop.run (loop.py:355-382).                                        *)
(***************************************************************************)
\* lines 363-370 with loop.py:401-416 and 559-580: an inbound message is
\* dequeued and its turn starts
BeginTurn(m) ==
  /\ pc = "idle"
  /\ turns < MaxTurns
  /\ turns' = turns + 1
  /\ msg' = m
  /\ kind' = IF m.channel = <<"system">> THEN "system" ELSE "user"
  /\ session_key' =
       IF m.channel = <<"system">>
         THEN SessionKey(ParseOrigin(m.chat_id).channel, ParseOrigin(m.chat_id).chat_id)
         ELSE InboundSessionKey(m)
  /\ pc' = "compact"
  /\ UNCHANGED <<auxVars, conv, memory_recall, search, cfg, sessionVars, reindex_calls,
                 call, flush_log, flushVars, pending, llm_tools, turnVars>>

\* the locals of a turn are gone when it has returned or raised
TurnOver ==
  /\ pc' = "idle"
  /\ reindex_calls' = 0
  /\ pending' = <<>>
  /\ llm_tools' = <<>>
  /\ llm_messages' = <<>>
  /\ iteration' = 0
  /\ final_content' = "None"
  /\ memory_tools_called' = {}
  /\ empty_retry_done' = FALSE
  /\ responses' = <<>>
  /\ index_update' = "none"
  /\ outbound' = <<>>
  /\ kind' = "user"
  /\ msg' = NoMessage
  /\ session_key' = <<>>
  /\ memory_recall' = "None"
  /\ search' = "none"
  /\ UNCHANGED <<auxVars, conv, cfg, sessionVars, turns, call, flush_log, flushVars>>

\* lines 371-372: the returned reply has been published
PublishReply ==
  /\ pc = "done"
  /\ TurnOver

\* lines 373-380: the apology has been published
PublishError ==
  /\ pc = "failed"
  /\ TurnOver

(***************************************************************************)
(* _maybe_compact_session (loop.py:308-353).                               *)
(***************************************************************************)
\* a variant in which the turn goes on to the context build without the
\* recall
CompactSkip_NoRecall ==
  /\ pc = "compact"
  /\ ~CompactionFires(cfg, session)
  /\ pc' = "context"
  /\ UNCHANGED <<auxVars, inboundVars, cfg, sessionVars, reindex_calls, turns, kind, call,
                 flush_log, flushVars, pending, llm_tools, turnVars>>

\* lines 314-321: one of the three early returns
CompactSkip ==
  /\ pc = "compact"
  /\ ~CompactionFires(cfg, session)
  /\ pc' = "recall"
  /\ UNCHANGED <<auxVars, inboundVars, cfg, sessionVars, reindex_calls, turns, kind, call, flush_log,
                 flushVars, pending, llm_tools, turnVars>>

\* lines 324-327 and 199-207: the flush is due and _run_memory_flush_turn starts
CompactStartFlush ==
  /\ pc = "compact"
  /\ CompactionFires(cfg, session)
  /\ FlushDue(cfg, session)
  /\ call' = [NoCall EXCEPT !.fired = TRUE, !.before = session, !.flushed = TRUE]
  /\ flush_log' = Append(flush_log, session.compaction_count)
  /\ history' = get_history(session, cfg.max_history_messages)
  /\ append_daily_called' = FALSE
  /\ flush_iter' = 0
  /\ pc' = "flush_llm"
  /\ UNCHANGED <<auxVars, inboundVars, cfg, sessionVars, reindex_calls, turns, kind, pending,
                 llm_tools, turnVars>>

\* lines 324-325: the flush is disabled or already ran for this compaction_count
CompactNoFlush ==
  /\ pc = "compact"
  /\ CompactionFires(cfg, session)
  /\ ~FlushDue(cfg, session)
  /\ call' = [NoCall EXCEPT !.fired = TRUE, !.before = session]
  /\ pc' = "summarize"
  /\ UNCHANGED <<auxVars, inboundVars, cfg, sessionVars, reindex_calls, turns, kind, flush_log,
                 flushVars, pending, llm_tools, turnVars>>

(***************************************************************************)
(* _reindex_memory_search (loop.py:268-281).                               *)
(***************************************************************************)
\* a variant of _reindex_memory_search without the except of loop.py:280
AfterReindex_Propagates(outcome) == IF outcome = "raised" THEN "failed" ELSE "save"

\* loop.py:276-281: the index update runs inside try/except, so the turn goes
\* on whether it finished or raised
AfterReindex(outcome) == "save"

(***************************************************************************)
(* _run_memory_flush_turn (loop.py:192-266).  The assistant and tool       *)
(* messages it appends to its own list only feed its next provider call;   *)
(* the list is kept as the history it starts from.                         *)
(***************************************************************************)
\* lines 233-239: the requested tools run in request order; oks[i] is whether
\* the i-th tool succeeds (only the outcome of append_daily is distinguished).
\* st is [file, called]: the notes written to today's file and
\* append_daily_called, which line 235 sets before the tool has run.
RECURSIVE ExecFlushTools(_, _, _)
ExecFlushTools(calls, oks, st) ==
  IF calls = <<>>
    THEN st
    ELSE LET name == Head(calls).name IN
           ExecFlushTools(
             Tail(calls), Tail(oks),
             [file |-> DailyAfterTool(name, Head(oks), st.file),
              called |-> st.called \/ name = "append_daily"])

\* a variant of the loop bound of line 208 that admits one more round
FlushLoopContinues_OneMore(i) == i <= max_flush_iterations

\* line 208: for _ in range(max_flush_iterations)
FlushLoopContinues(i) == i < max_flush_iterations

\* what a response without tool calls can carry (lines 240-246)
FlushReplies == {"NO_REPLY", "text", "empty"}

\* lines 209-215 raise: the exception leaves the flush and is caught at 329-330
FlushModelRaises ==
  /\ pc = "flush_llm"
  /\ llm_tools' = _get_llm_tool_definitions
  /\ call' = [call EXCEPT !.flush_raised = TRUE, !.flush_responses = <<>>]
  /\ pc' = "summarize"
  /\ UNCHANGED <<auxVars, inboundVars, cfg, sessionVars, reindex_calls, turns, kind, flush_log,
                 flushVars, pending, turnVars>>

\* lines 209-239: a response with tool calls, the tools it requests, and the
\* loop test of line 208
FlushModelToolCalls ==
  /\ pc = "flush_llm"
  /\ \E names \in ToolCallNames :
       \E oks \in {f \in [1..Len(names) -> BOOLEAN] :
                      \A i \in 1..Len(names) : names[i] # "append_daily" => f[i]} :
         LET st == ExecFlushTools(ToolCalls(names, flush_iter), oks,
                                  [file |-> call.daily_writes,
                                   called |-> append_daily_called])
         IN /\ append_daily_called' = st.called
            /\ call' = [call EXCEPT !.daily_writes = st.file,
                                    !.flush_responses = Append(@, "tool_calls")]
  /\ llm_tools' = _get_llm_tool_definitions
  /\ flush_iter' = flush_iter + 1
  /\ pc' = IF FlushLoopContinues(flush_iter + 1) THEN "flush_llm" ELSE "flush_end"
  /\ UNCHANGED <<auxVars, inboundVars, cfg, sessionVars, reindex_calls, turns, kind, flush_log, history,
                 pending, turnVars>>

\* lines 240-246: a response without tool calls (NO_REPLY, free text or
\* empty content: only the log line differs) ends the loop
FlushModelNoToolCalls ==
  /\ pc = "flush_llm"
  /\ llm_tools' = _get_llm_tool_definitions
  /\ flush_iter' = flush_iter + 1
  /\ \E reply \in FlushReplies :
       call' = [call EXCEPT !.flush_responses = Append(@, reply)]
  /\ pc' = "flush_end"
  /\ UNCHANGED <<auxVars, inboundVars, cfg, sessionVars, reindex_calls, turns, kind, flush_log,
                 history, append_daily_called, pending, turnVars>>

\* a variant of the flush marker of line 262 that names the next compaction
FlushMarker_Next(s) == {s.compaction_count + 1}

\* line 262: session.memory_flush_compaction_count = session.compaction_count
FlushMarker(s) == {s.compaction_count}

\* lines 248-263: the fallback note (a failing store is caught at 259-260),
\* the flush marker and the save; the loop's responses are not read again
FlushEnd ==
  /\ pc = "flush_end"
  /\ IF FallbackNeeded(append_daily_called, history)
       THEN \E ok \in BOOLEAN :
              call' = [call EXCEPT
                         !.fallback_notes = Append(@, FallbackNote(session)),
                         !.daily_writes =
                            IF ok THEN append_daily(@, FallbackNote(session)) ELSE @,
                         !.flush_responses = <<>>]
       ELSE call' = [call EXCEPT !.flush_responses = <<>>]
  /\ session' = [session EXCEPT !.memory_flush_compaction_count = FlushMarker(session)]
  /\ stored' = session'
  /\ pc' = "flush_reindex"
  /\ UNCHANGED <<auxVars, inboundVars, cfg, reindex_calls, turns, kind, flush_log, flushVars,
                 pending, llm_tools, turnVars>>

\* lines 265-266 with 268-281: the reindex that ends the flush; the index
\* update finishes or raises inside _reindex_memory_search, and the flush
\* returns
FlushReindex ==
  /\ pc = "flush_reindex"
  /\ reindex_calls' = reindex_calls + 1
  /\ \E outcome \in {"ok", "raised"} :
       call' = [call EXCEPT
                  !.flush_returned = (AfterReindex(outcome) # "failed"),
                  !.flush_raised = (AfterReindex(outcome) = "failed")]
  /\ pc' = "summarize"
  /\ UNCHANGED <<auxVars, inboundVars, cfg, sessionVars, turns, kind, flush_log, flushVars,
                 pending, llm_tools, turnVars>>

\* loop.py:332-353 with compaction.py:61-84: partition, summarize, trim, count, save
CompactTrim ==
  /\ pc = "summarize"
  /\ LET keep == cfg.compaction_keep_recent
         old == OldMessages(session, keep)
         recent == RecentMessages(session, keep)
         input == SummarizerInput(session.compaction_summary, old)
     IN \E outcome \in SummaryOutcomes :
          LET new_summary == summarize_messages(input, outcome) IN
            /\ session' = [session EXCEPT
                             !.messages = recent,
                             !.compaction_summary =
                                IF new_summary # NoSummary THEN new_summary ELSE @,
                             !.compaction_count = IncrementCompactionCount(@)]
            /\ call' = [call EXCEPT
                          !.summarizer_input = input,
                          !.summary_failed = (input # <<>> /\ outcome # "text")]
            \* summarize_messages passes tools=None (compaction.py:73)
            /\ llm_tools' = IF input # <<>> THEN <<>> ELSE llm_tools
  /\ stored' = session'
  /\ history' = <<>>
  /\ append_daily_called' = FALSE
  /\ flush_iter' = 0
  /\ pc' = "recall"
  /\ UNCHANGED <<auxVars, inboundVars, cfg, reindex_calls, turns, kind, flush_log, pending, turnVars>>

(***************************************************************************)
(* _process_message / _process_system_message after the compaction check.  *)
(* The two methods run the same steps; they differ in the empty-content    *)
(* handling, the fallback reply and the stored user content.               *)
(***************************************************************************)
\* loop.py:674: f"[System: {msg.sender_id}] {msg.content}"
SystemMarked(content) ==
  IF content = "msg" THEN "[System] msg"
  ELSE IF content = "" THEN "[System] "
  ELSE "[System]    "

\* the identity of the next stored message
NextId(s) == IF s.messages = <<>> THEN 1 ELSE s.messages[Len(s.messages)].id + 1

\* a variant of loop.py:674 that stores the inbound content as it came
UserContent_Unmarked == msg.content

\* loop.py:540 and 674: the content stored as the user message
UserContent == IF kind = "system" THEN SystemMarked(msg.content) ELSE msg.content

\* loop.py:454-475, 515-519, 544-548 address msg.channel / msg.chat_id;
\* loop.py:612-631 and 678-682 address the parsed origin
ReplyTo ==
  IF kind = "system"
    THEN ParseOrigin(msg.chat_id)
    ELSE [channel |-> msg.channel, chat_id |-> msg.chat_id]

Published(content) == [to |-> ReplyTo, content |-> content]

\* loop.py:373-380: the apology run() publishes to msg.channel / msg.chat_id
\* when the turn raises
Apology ==
  [to |-> [channel |-> msg.channel, chat_id |-> msg.chat_id], content |-> "error"]

\* a variant of the loop test that admits one more round
LoopContinues_OneMore(i, c) == i <= c.max_iterations

\* loop.py:441 and 600: while iteration < self.max_iterations
LoopContinues(i, c) == i < c.max_iterations

\* a variant of loop.py:454-475 that publishes both notices
AnnounceTools_Both(out) ==
  Append(Append(out, Published("tool_progress")), Published("tool_progress"))

\* loop.py:454-475 and 612-631: one notice per response with tool calls (the
\* thinking text, when there is some, is part of the same notice)
AnnounceTools(out) == Append(out, Published("tool_progress"))

\* a variant of the test of loop.py:513 that ignores the flag
MayRetry_Always(done) == TRUE

\* loop.py:513: if not empty_retry_done
MayRetry(done) == ~done

\* a variant of loop.py:520-521 that leaves out the prompt
InjectRetry_NoPrompt(messages) ==
  Append(messages, Entry("assistant", 0, "", "", <<>>))

\* a variant of loop.py:520-521 that shows the model the user's notice
InjectRetry_WithNotice(messages) ==
  messages \o <<Entry("assistant", 0, "", EMPTY_CONTENT_FALLBACK_USER, <<>>),
                Entry("user", 0, "", EMPTY_CONTENT_RETRY_PROMPT, <<>>)>>

\* loop.py:520-521: the empty assistant message and the 'please continue' prompt
InjectRetry(messages) ==
  messages \o <<Entry("assistant", 0, "", "", <<>>),
                Entry("user", 0, "", EMPTY_CONTENT_RETRY_PROMPT, <<>>)>>

\* loop.py:422 and 585: memory_recall = await self._recall_memory(msg.content).
\* The tool is registered when memory_search_enabled (loop.py:169-174).  The
\* record of the compaction call ends here.
Recall ==
  /\ pc = "recall"
  /\ \E outcome \in IndexBehaviours(cfg) :
       LET r == _recall_memory(cfg.memory_search_enabled, msg.content, outcome) IN
         /\ search' = r.search
         /\ memory_recall' = r.memory_recall
  /\ call' = NoCall
  /\ pc' = "context"
  /\ UNCHANGED <<auxVars, conv, msg, session_key, cfg, sessionVars, reindex_calls, turns,
                 kind, flush_log, flushVars, pending, llm_tools, turnVars>>

\* loop.py:425-441 and 588-600: the message list from the bounded history,
\* then the loop test.  loop.py:431 passes cron_instruction, which only adds
\* text to the system prompt.
BuildContext ==
  /\ pc = "context"
  /\ llm_messages' =
       build_messages(get_history(session, cfg.max_history_messages), msg.content,
                      session.compaction_summary, memory_recall)
  /\ iteration' = 0
  /\ search' = "none"
  /\ pc' = IF LoopContinues(0, cfg) THEN "llm" ELSE "post"
  /\ UNCHANGED <<auxVars, call, conv, msg, session_key, memory_recall, cfg, sessionVars,
                 reindex_calls, turns, kind, flush_log, flushVars, pending,
                 llm_tools, final_content, memory_tools_called,
                 empty_retry_done, responses, index_update, outbound>>

\* a variant in which the inbound message is recorded before the turn is
\* aborted
ModelRaises_RecordsInbound ==
  /\ pc = "llm"
  /\ iteration' = iteration + 1
  /\ llm_tools' = _get_llm_tool_definitions
  /\ outbound' = Append(outbound, Apology)
  /\ responses' = Append(responses, "raise")
  /\ session' = add_message(session, "user", NextId(session), UserContent)
  /\ stored' = session'
  /\ pc' = "failed"
  /\ UNCHANGED <<auxVars, inboundVars, cfg, reindex_calls, turns, kind, call, flush_log,
                 flushVars, pending, llm_messages, final_content, memory_tools_called,
                 empty_retry_done, index_update>>

\* loop.py:445-451 or 603-609 raises: the turn is aborted and run() publishes
\* the apology to msg.channel / msg.chat_id (loop.py:373-380)
ModelRaises ==
  /\ pc = "llm"
  /\ iteration' = iteration + 1
  /\ llm_tools' = _get_llm_tool_definitions
  /\ outbound' = Append(outbound, Apology)
  /\ responses' = Append(responses, "raise")
  /\ pc' = "failed"
  /\ UNCHANGED <<auxVars, inboundVars, cfg, sessionVars, reindex_calls, turns, kind, call, flush_log,
                 flushVars, pending, llm_messages, final_content, memory_tools_called,
                 empty_retry_done, index_update>>

\* loop.py:454-494 and 611-649: a response with tool calls is announced on the
\* bus and appended as an assistant message carrying the calls
ModelToolCalls ==
  /\ pc = "llm"
  /\ iteration' = iteration + 1
  /\ llm_tools' = _get_llm_tool_definitions
  /\ \E names \in ToolCallNames :
       LET calls == ToolCalls(names, iteration + 1) IN
         /\ pending' = calls
         /\ llm_messages' = add_assistant_message(llm_messages, "", calls)
  /\ outbound' = AnnounceTools(outbound)
  /\ responses' = Append(responses, "tool_calls")
  /\ pc' = "tool"
  /\ UNCHANGED <<auxVars, inboundVars, cfg, sessionVars, reindex_calls, turns, kind, call, flush_log,
                 flushVars, final_content, memory_tools_called, empty_retry_done,
                 index_update>>

\* loop.py:497-506 and 651-659: one requested tool call, then the loop test.
\* The tool's text, an error string included, is data the loop only appends.
ExecTool ==
  /\ pc = "tool"
  /\ pending # <<>>
  /\ LET tc == Head(pending) IN
       /\ memory_tools_called' =
            IF tc.name \in MEMORY_WRITE_TOOLS
              THEN memory_tools_called \cup {tc.name}
              ELSE memory_tools_called
       /\ llm_messages' = add_tool_result(llm_messages, tc.id, tc.name, "result")
  /\ pending' = Tail(pending)
  /\ pc' = IF Tail(pending) # <<>> THEN "tool"
           ELSE IF LoopContinues(iteration, cfg) THEN "llm"
           ELSE "post"
  /\ UNCHANGED <<auxVars, inboundVars, cfg, sessionVars, reindex_calls, turns, kind, call, flush_log,
                 flushVars, llm_tools, iteration, final_content, empty_retry_done,
                 responses, index_update, outbound>>

\* loop.py:526-528 and 660-662: a textual reply ends the loop
ModelText ==
  /\ pc = "llm"
  /\ iteration' = iteration + 1
  /\ llm_tools' = _get_llm_tool_definitions
  /\ final_content' = "text"
  /\ responses' = Append(responses, "text")
  /\ pc' = "post"
  /\ UNCHANGED <<auxVars, inboundVars, cfg, sessionVars, reindex_calls, turns, kind, call, flush_log,
                 flushVars, pending, llm_messages, memory_tools_called,
                 empty_retry_done, index_update, outbound>>

\* loop.py:510-522: the first empty reply of a user turn
ModelEmptyRetry ==
  /\ pc = "llm"
  /\ kind = "user"
  /\ MayRetry(empty_retry_done)
  /\ iteration' = iteration + 1
  /\ llm_tools' = _get_llm_tool_definitions
  /\ empty_retry_done' = TRUE
  /\ responses' = Append(responses, "empty")
  /\ outbound' = Append(outbound, Published(EMPTY_CONTENT_FALLBACK_USER))
  /\ llm_messages' = InjectRetry(llm_messages)
  /\ pc' = IF LoopContinues(iteration + 1, cfg) THEN "llm" ELSE "post"
  /\ UNCHANGED <<auxVars, inboundVars, cfg, sessionVars, reindex_calls, turns, kind, call, flush_log,
                 flushVars, pending, final_content, memory_tools_called,
                 index_update>>

\* loop.py:523-525: the second empty reply of a user turn;
\* loop.py:660-662: any empty reply of a system turn, whose content (None,
\* empty or blank) becomes final_content as it is
ModelEmptyFinal ==
  /\ pc = "llm"
  /\ kind = "system" \/ ~MayRetry(empty_retry_done)
  /\ iteration' = iteration + 1
  /\ llm_tools' = _get_llm_tool_definitions
  /\ final_content' \in (IF kind = "system" THEN {"", "None"}
                          ELSE {EMPTY_CONTENT_FALLBACK_USER})
  /\ responses' = Append(responses, "empty")
  /\ pc' = "post"
  /\ UNCHANGED <<auxVars, inboundVars, cfg, sessionVars, reindex_calls, turns, kind, call, flush_log,
                 flushVars, pending, llm_messages, memory_tools_called,
                 empty_retry_done, index_update, outbound>>

\* loop.py:530-531 and 664-668
FinalReply ==
  IF final_content = "None"
    THEN (IF kind = "system" THEN BACKGROUND_DONE_REPLY ELSE NO_CONTENT_REPLY)
    ELSE IF final_content = "" THEN EMPTY_CONTENT_FALLBACK_USER
    ELSE final_content

\* loop.py:535-537 and 670-671 with 268-277: after memory writes the turn
\* calls _reindex_memory_search, which returns at once without the
\* memory_search tool and otherwise starts the index update and awaits it
StartReindex ==
  /\ pc = "post"
  /\ memory_tools_called # {}
  /\ reindex_calls' = reindex_calls + 1
  /\ index_update' = IF cfg.memory_search_enabled THEN "running" ELSE "none"
  /\ pc' = IF cfg.memory_search_enabled THEN "reindex" ELSE "save"
  /\ UNCHANGED <<auxVars, inboundVars, cfg, sessionVars, turns, kind, call, flush_log, flushVars, pending,
                 llm_tools, llm_messages, iteration, final_content,
                 memory_tools_called, empty_retry_done, responses, outbound>>

\* loop.py:277-281: the awaited index update finishes or raises
ReindexReturns ==
  /\ pc = "reindex"
  /\ \E outcome \in {"ok", "raised"} :
       /\ index_update' = outcome
       /\ pc' = AfterReindex(outcome)
       /\ outbound' = IF AfterReindex(outcome) = "failed"
                        THEN Append(outbound, Apology)
                        ELSE outbound
  /\ UNCHANGED <<auxVars, inboundVars, cfg, sessionVars, reindex_calls, turns, kind, call, flush_log,
                 flushVars, pending, llm_tools, llm_messages, iteration,
                 final_content, memory_tools_called, empty_retry_done, responses>>

\* loop.py:539-548 and 673-682: the user and assistant messages, the save
\* and the returned reply
PostTurn ==
  /\ pc = "save" \/ (pc = "post" /\ memory_tools_called = {})
  /\ session' = add_message(add_message(session, "user", NextId(session), UserContent),
                            "assistant", NextId(session) + 1, "reply")
  /\ stored' = session'
  /\ outbound' = Append(outbound, Published(FinalReply))
  /\ pc' = "done"
  /\ UNCHANGED <<auxVars, inboundVars, cfg, reindex_calls, turns, kind, call, flush_log, flushVars, pending,
                 llm_tools, llm_messages, iteration, final_content,
                 memory_tools_called, empty_retry_done, responses, index_update>>

Next ==
  \/ \E m \in Inbound(cfg, conv, session) : BeginTurn(m)
  \/ PublishReply
  \/ PublishError
  \/ CompactSkip
  \/ CompactStartFlush
  \/ CompactNoFlush
  \/ FlushModelRaises
  \/ FlushModelToolCalls
  \/ FlushModelNoToolCalls
  \/ FlushEnd
  \/ FlushReindex
  \/ CompactTrim
  \/ Recall
  \/ BuildContext
  \/ ModelRaises
  \/ ModelToolCalls
  \/ ExecTool
  \/ ModelText
  \/ ModelEmptyRetry
  \/ ModelEmptyFinal
  \/ StartReindex
  \/ ReindexReturns
  \/ PostTurn

Spec == Init /\ [][Next]_vars

(***************************************************************************)
(* DailySpec: MemoryStore.append_daily called any number of times on one   *)
(* day, starting without a daily file.                                     *)
(***************************************************************************)
\* the configuration and the conversation the other specifications fix
DefaultConfig ==
  [compaction_enabled |-> FALSE,
   compaction_threshold |-> 0,
   compaction_keep_recent |-> 0,
   compaction_memory_flush_enabled |-> FALSE,
   max_history_messages |-> MaxHistory,
   max_iterations |-> 1,
   memory_search_enabled |-> TRUE]

DefaultConv == [channel |-> <<"cli">>, chat_id |-> ChatId(1)]

EngineOff ==
  /\ cfg = DefaultConfig
  /\ conv = DefaultConv
  /\ EngineIdle

\* memory.py:70-72: append_daily(content) is append_today(content)
AppendDaily(note) ==
  /\ Len(appended) < MaxNotes
  /\ today_file' = append_today(today_file, note)
  /\ appended' = Append(appended, note)
  /\ UNCHANGED <<engineVars, feishuVars, organizeVars, chunkVars, catalogVars, contextVars, directVars>>

DailyInit ==
  /\ EngineOff
  /\ DailyIdle
  /\ ContextIdle
  /\ DirectIdle
  /\ FeishuIdle
  /\ OrganizeIdle
  /\ ChunkIdle
  /\ CatalogIdle

DailyNext == \E note \in Notes : AppendDaily(note)

DailySpec == DailyInit /\ [][DailyNext]_vars

(***************************************************************************)
(* ContextSpec: one build_messages call on any arguments.                  *)
(***************************************************************************)
BuildMessages ==
  /\ built = <<>>
  /\ built' = build_messages(build_args.history, build_args.current_message,
                             build_args.compaction_summary, build_args.memory_recall)
  /\ UNCHANGED <<engineVars, feishuVars, organizeVars, chunkVars, catalogVars, dailyVars, directVars, build_args>>

ContextInit ==
  /\ EngineOff
  /\ DailyIdle
  /\ DirectIdle
  /\ FeishuIdle
  /\ OrganizeIdle
  /\ ChunkIdle
  /\ CatalogIdle
  /\ build_args \in BuildInputs
  /\ built = <<>>

ContextNext == BuildMessages

ContextSpec == ContextInit /\ [][ContextNext]_vars

(***************************************************************************)
(* DirectSpec: run() consumes the bus while another task calls             *)
(* process_direct (loop.py:684-707).  Both run _process_message; a task    *)
(* gives way to the other one where it awaits the memory search or the     *)
(* provider.                                                               *)
(***************************************************************************)
\* the turns started so far: the stored pairs and the turns in progress
TurnsStarted ==
  LET stored_pairs(k) == Len(sessions[k].messages) \div 2
      Sum[ks \in SUBSET DirectKeys] ==
        IF ks = {} THEN 0
        ELSE LET k == CHOOSE x \in ks : TRUE IN stored_pairs(k) + Sum[ks \ {k}]
  IN Sum[DirectKeys] + Cardinality({t \in Tasks : task[t].pc # "idle"})

\* loop.py:696-705: session_key is split at its first ":" into the channel
\* and chat_id of the message, whose session key is the same text again
DirectMessageKey(key) ==
  InboundSessionKey([channel |-> ParseOrigin(key).channel,
                     chat_id |-> ParseOrigin(key).chat_id])

\* loop.py:405-422: the task loads the session and awaits the memory search
StartTurn(t, key) ==
  /\ task[t].pc = "idle"
  /\ TurnsStarted < MaxDirectTurns
  /\ task' = [task EXCEPT ![t] = [pc |-> "recall", key |-> key, context |-> <<>>]]
  /\ UNCHANGED <<engineVars, feishuVars, organizeVars, chunkVars, catalogVars, dailyVars, contextVars, sessions>>

\* loop.py:422-451: the search is over; the task builds its context from the
\* history of the session and awaits provider.chat
RecallReturns(t) ==
  /\ task[t].pc = "recall"
  /\ task' = [task EXCEPT ![t].pc = "model",
                          ![t].context =
                            get_history(sessions[task[t].key], cfg.max_history_messages)]
  /\ UNCHANGED <<engineVars, feishuVars, organizeVars, chunkVars, catalogVars, dailyVars, contextVars, sessions>>

\* loop.py:363-367: run() dequeues a message of the conversation
RunStarts == StartTurn("run", InboundSessionKey(DefaultConv))

\* loop.py:684-706: process_direct is called with a session key
DirectStarts == \E k \in DirectKeys : StartTurn("direct", DirectMessageKey(k))

\* the text of the message a task's turn is about
TaskContent(t) == IF t = "run" THEN "msg" ELSE "direct msg"

\* loop.py:526-548: the provider has answered; the user and assistant
\* messages are appended to the session, it is saved and the turn returns
TurnReturns(t) ==
  /\ task[t].pc = "model"
  /\ sessions' =
       [sessions EXCEPT ![task[t].key] =
          LET n == Len(@.messages)
          IN add_message(add_message(@, "user", n + 1, TaskContent(t)),
                         "assistant", n + 2, "reply")]
  /\ task' = [task EXCEPT ![t] = NoTurn]
  /\ UNCHANGED <<engineVars, feishuVars, organizeVars, chunkVars, catalogVars, dailyVars, contextVars>>

DirectInit ==
  /\ EngineOff
  /\ DailyIdle
  /\ ContextIdle
  /\ DirectIdle
  /\ FeishuIdle
  /\ OrganizeIdle
  /\ ChunkIdle
  /\ CatalogIdle

DirectNext ==
  \/ RunStarts
  \/ DirectStarts
  \/ \E t \in Tasks : RecallReturns(t)
  \/ \E t \in Tasks : TurnReturns(t)

DirectSpec == DirectInit /\ [][DirectNext]_vars

(***************************************************************************)
(* CatalogSpec: one _get_llm_tool_definitions call on any registry.        *)
(***************************************************************************)
GetLlmToolDefinitions ==
  /\ ~catalog.called
  /\ catalog' = [called |-> TRUE, out |-> LlmToolDefinitions(registry)]
  /\ UNCHANGED <<engineVars, feishuVars, organizeVars, chunkVars, dailyVars, contextVars, directVars, registry>>

CatalogInit ==
  /\ EngineOff
  /\ DailyIdle
  /\ ContextIdle
  /\ DirectIdle
  /\ FeishuIdle
  /\ OrganizeIdle
  /\ ChunkIdle
  /\ registry \in Registries
  /\ catalog = [called |-> FALSE, out |-> <<>>]

CatalogNext == GetLlmToolDefinitions

CatalogSpec == CatalogInit /\ [][CatalogNext]_vars

(***************************************************************************)
(* ChunkSpec: _chunk_text on any text, one pass of its outer loop at a     *)
(* time (memory_search.py:26-46).                                          *)
(***************************************************************************)
ChunkPass ==
  /\ pos < Len(text_lines)
  /\ Len(chunks) < MaxChunks
  /\ LET n == TakenLines(text_lines, pos, 0, 0)
         current == SubSeq(text_lines, pos + 1, pos + n)
     IN /\ chunks' = Append(chunks, pos + 1)
        /\ pos' = IF pos + n < Len(text_lines)
                    THEN pos + n - OverlapCount(current, Len(current), 0, 0)
                    ELSE pos + n
  /\ UNCHANGED <<engineVars, feishuVars, organizeVars, dailyVars, contextVars, directVars, catalogVars, text_lines>>

\* memory_search.py:24-25: text.split("\n") has at least one line
ChunkInit ==
  /\ EngineOff
  /\ DailyIdle
  /\ ContextIdle
  /\ DirectIdle
  /\ FeishuIdle
  /\ OrganizeIdle
  /\ CatalogIdle
  /\ text_lines \in UNION {[1..n -> LineLengths] : n \in 1..MaxLines}
  /\ pos = 0
  /\ chunks = <<>>

ChunkNext == ChunkPass

ChunkSpec == ChunkInit /\ [][ChunkNext]_vars

(***************************************************************************)
(* OrganizeSpec: append_core and organize_long_term calls in any order on  *)
(* a workspace without MEMORY.md.                                          *)
(***************************************************************************)
AppendCore(content) ==
  /\ Len(remembered) < MaxEntries
  /\ memory_file' = append_core(memory_file, content)
  /\ remembered' = Append(remembered, content)
  /\ UNCHANGED <<engineVars, feishuVars, dailyVars, contextVars, directVars, catalogVars, chunkVars,
                 moved_daily>>

\* memory.py:84-85: without MEMORY.md there is nothing to organize
OrganizeLongTerm ==
  /\ memory_file.exists
  /\ LET r == organize_long_term(memory_file, moved_daily)
     IN /\ memory_file' = r.file
        /\ moved_daily' = r.moved
  /\ UNCHANGED <<engineVars, feishuVars, dailyVars, contextVars, directVars, catalogVars, chunkVars,
                 remembered>>

OrganizeInit ==
  /\ EngineOff
  /\ DailyIdle
  /\ ContextIdle
  /\ DirectIdle
  /\ FeishuIdle
  /\ ChunkIdle
  /\ CatalogIdle
  /\ OrganizeIdle

OrganizeNext ==
  \/ \E content \in EntryContents : AppendCore(content)
  \/ OrganizeLongTerm

OrganizeSpec == OrganizeInit /\ [][OrganizeNext]_vars

(***************************************************************************)
(* FeishuSpec: inbound messages, timers and outbound sends of one chat,    *)
(* interleaved at the awaits of the coroutines.                            *)
(***************************************************************************)
notFeishu == <<engineVars, dailyVars, contextVars, directVars, catalogVars, chunkVars,
               organizeVars>>

\* feishu.py:318-320: create the task and store ("", timer_task)
CreateTimer ==
  /\ timer_tasks' = Append(timer_tasks, "sleeping")
  /\ thinking_posts' = Append(thinking_posts, "none")
  /\ _thinking_messages' = {[message_id |-> 0, timer_task |-> Len(timer_tasks) + 1]}

\* feishu.py:606-607 and 268-320: an inbound message's call, up to its await
\* at line 279 when the existing task is pending, and to its end otherwise
ScheduleThinking ==
  /\ Len(timer_tasks) + scheduling < MaxInbound
  /\ entry_cleared' = "no"
  /\ IF \E e \in _thinking_messages : IsPending(e.timer_task)
       THEN /\ \E e \in _thinking_messages : timer_tasks' = cancel(timer_tasks, e.timer_task)
            /\ _thinking_messages' = {}
            /\ scheduling' = scheduling + 1
            /\ UNCHANGED thinking_posts
       ELSE /\ CreateTimer
            /\ UNCHANGED scheduling
  /\ UNCHANGED <<notFeishu, sending, sends>>

\* feishu.py:279-320: the call resumes once the cancelled task has ended
ScheduleResumes ==
  /\ scheduling > 0
  /\ scheduling' = scheduling - 1
  /\ CreateTimer
  /\ UNCHANGED <<notFeishu, sending, sends, entry_cleared>>

\* feishu.py:284-299: the threshold elapses and the task posts
TimerElapses(t) ==
  /\ t <= Len(timer_tasks)
  /\ timer_tasks[t] = "sleeping"
  /\ timer_tasks' = [timer_tasks EXCEPT ![t] = "posting"]
  /\ UNCHANGED <<notFeishu, _thinking_messages, thinking_posts, scheduling, sending, sends,
                 entry_cleared>>

\* the platform creates the placeholder message and answers
PlatformPosts(t) ==
  /\ t <= Len(timer_tasks)
  /\ timer_tasks[t] = "posting"
  /\ timer_tasks' = [timer_tasks EXCEPT ![t] = "responded"]
  /\ thinking_posts' = [thinking_posts EXCEPT ![t] = "posted"]
  /\ UNCHANGED <<notFeishu, _thinking_messages, scheduling, sending, sends, entry_cleared>>

\* feishu.py:300-306 and 315-316: the post fails
ThinkingPostFails(t) ==
  /\ t <= Len(timer_tasks)
  /\ timer_tasks[t] = "posting"
  /\ timer_tasks' = [timer_tasks EXCEPT ![t] = "done"]
  /\ UNCHANGED <<notFeishu, _thinking_messages, thinking_posts, scheduling, sending, sends,
                 entry_cleared>>

\* feishu.py:307-311: the task stores (message_id, timer_task)
TimerRecords(t) ==
  /\ t <= Len(timer_tasks)
  /\ timer_tasks[t] = "responded"
  /\ timer_tasks' = [timer_tasks EXCEPT ![t] = "done"]
  /\ _thinking_messages' = {[message_id |-> t, timer_task |-> t]}
  /\ UNCHANGED <<notFeishu, thinking_posts, scheduling, sending, sends, entry_cleared>>

\* feishu.py:430-440: send() pops the entry and cancels its task
SendBegins(msg_kind) ==
  /\ sending = {}
  /\ sends < MaxSends
  /\ sends' = sends + 1
  /\ _thinking_messages' = {}
  /\ IF _thinking_messages = {}
       THEN /\ sending' = {[thinking_message_id |-> 0, kind |-> msg_kind]}
            /\ UNCHANGED timer_tasks
       ELSE \E e \in _thinking_messages :
              /\ sending' = {[thinking_message_id |-> e.message_id, kind |-> msg_kind]}
              /\ timer_tasks' = cancel(timer_tasks, e.timer_task)
  /\ entry_cleared' = "popped"
  /\ UNCHANGED <<notFeishu, thinking_posts, scheduling>>

\* feishu.py:442-535: the rest of send(); an empty message deletes the
\* placeholder, a text updates it when _update_message succeeds
SendReturns(updated) ==
  /\ sending # {}
  /\ sending' = {}
  /\ entry_cleared' = IF entry_cleared = "popped" THEN "returned" ELSE entry_cleared
  /\ \E s \in sending :
       IF s.thinking_message_id = 0 \/ s.kind = "media" \/ (s.kind = "text" /\ ~updated)
         THEN UNCHANGED thinking_posts
         ELSE thinking_posts' =
                [thinking_posts EXCEPT ![s.thinking_message_id] =
                   IF s.kind = "empty" THEN "deleted" ELSE "updated"]
  /\ UNCHANGED <<notFeishu, _thinking_messages, timer_tasks, scheduling, sends>>

\* feishu.py:322-331
_cancel_thinking_message ==
  /\ _thinking_messages # {}
  /\ \E e \in _thinking_messages : timer_tasks' = cancel(timer_tasks, e.timer_task)
  /\ _thinking_messages' = {}
  /\ entry_cleared' = "returned"
  /\ UNCHANGED <<notFeishu, thinking_posts, scheduling, sending, sends>>

FeishuInit ==
  /\ EngineOff
  /\ DailyIdle
  /\ ContextIdle
  /\ DirectIdle
  /\ ChunkIdle
  /\ CatalogIdle
  /\ OrganizeIdle
  /\ FeishuIdle

FeishuNext ==
  \/ ScheduleThinking
  \/ ScheduleResumes
  \/ \E t \in 1..MaxInbound : TimerElapses(t)
  \/ \E t \in 1..MaxInbound : PlatformPosts(t)
  \/ \E t \in 1..MaxInbound : ThinkingPostFails(t)
  \/ \E t \in 1..MaxInbound : TimerRecords(t)
  \/ \E msg_kind \in OutboundKinds : SendBegins(msg_kind)
  \/ \E updated \in BOOLEAN : SendReturns(updated)
  \/ _cancel_thinking_message

FeishuSpec == FeishuInit /\ [][FeishuNext]_vars

(***************************************************************************)
(* Properties of the compaction call.  pc = "recall" is the state in which *)
(* _maybe_compact_session has returned and the message list has not been   *)
(* built yet; call records what the call did and the session it started    *)
(* from.                                                                   *)
(***************************************************************************)
\* C1: whenever _maybe_compact_session compacts, on return the session holds
\* exactly compaction_keep_recent messages and compaction_count is one more
\* than before the call, for every keep_recent >= 0 and threshold >= 0.
C1_CompactedToKeepRecent ==
  (pc = "recall" /\ call.fired) =>
    /\ Len(session.messages) = cfg.compaction_keep_recent
    /\ session.compaction_count = call.before.compaction_count + 1

\* C2: with compaction enabled, the session a turn hands to build_messages
\* never holds more than compaction_threshold messages, for every
\* combination of threshold and keep_recent.
C2_ContextWithinThreshold ==
  (pc = "recall" /\ cfg.compaction_enabled) =>
    Len(session.messages) <= cfg.compaction_threshold

\* C3: when the summarization model call of a compaction fails (the provider
\* raises or returns empty text), compaction_summary is what it was before
\* the compaction, the messages are still cut to the recent suffix and
\* compaction_count is still incremented.
C3_FailedSummaryKeepsPrior ==
  (pc = "recall" /\ call.fired /\ call.summary_failed) =>
    /\ session.compaction_summary = call.before.compaction_summary
    /\ session.messages = RecentMessages(call.before, cfg.compaction_keep_recent)
    /\ session.compaction_count = call.before.compaction_count + 1

\* C4: over any sequence of _maybe_compact_session calls, with or without
\* new messages in between and whether or not a flush or a summarization
\* fails, _run_memory_flush_turn is invoked at most once for each value of
\* compaction_count.
C4_FlushOncePerCompactionCount ==
  \A i, j \in 1..Len(flush_log) : flush_log[i] = flush_log[j] => i = j

\* a second flush has started, after a turn that failed or after one that
\* added messages
C4_SecondFlush ==
  /\ Len(flush_log) >= 2
  /\ pc = "flush_llm"

\* C5: with the flush enabled, every compaction that discards messages has
\* been preceded, within the same _maybe_compact_session call, by a dated
\* note written to the daily file, also when the append_daily tool returns
\* an error and when a model call of the flush raises.
C5_NoteWrittenBeforeDiscard ==
  (/\ pc = "recall"
   /\ call.fired
   /\ cfg.compaction_memory_flush_enabled
   /\ Len(session.messages) < Len(call.before.messages)) =>
    call.daily_writes # <<>>

\* C6: when _run_memory_flush_turn has run on a session with at least one
\* message and the model never requested append_daily, the daily note store
\* has received exactly one fallback note on return, carrying the phrase
\* 'compaction threshold' and len(session.messages).
C6_FallbackNoteWhenModelDeclines ==
  (/\ pc = "summarize"
   /\ call.flush_returned
   /\ ~append_daily_called
   /\ session.messages # <<>>) =>
    /\ Len(call.fallback_notes) = 1
    /\ call.fallback_notes[1].phrase = "compaction threshold"
    /\ call.fallback_notes[1].n = Len(session.messages)

\* a flush has returned after at least two model calls none of which
\* requested append_daily
C6_ModelDeclined ==
  /\ pc = "summarize"
  /\ call.flush_returned
  /\ ~append_daily_called
  /\ flush_iter >= 2
  /\ Len(call.fallback_notes) = 1

\* C7: every model call of the memory-flush loop offers remember_core and
\* append_daily in its tool catalog.
C7_FlushOffersMemoryTools ==
  (/\ call.flushed
   /\ pc \in {"flush_llm", "flush_end", "summarize"}
   /\ flush_iter > 0 \/ call.flush_raised) =>
    {"remember_core", "append_daily"} \subseteq SeqRange(llm_tools)

\* C8: the message list the flush shows to the model contains every message
\* the same compaction is about to discard (old = messages[:-keep_recent]),
\* for every max_history_messages, compaction_threshold and
\* compaction_keep_recent.
C8_FlushSeesDiscardedMessages ==
  (call.flushed /\ pc \in {"flush_llm", "flush_end"}) =>
    SeqRange(OldMessages(session, cfg.compaction_keep_recent)) \subseteq SeqRange(history)

\* C9: when _run_memory_flush_turn raises, _maybe_compact_session catches the
\* exception and completes the compaction in the same call: the messages are
\* trimmed, compaction_count is incremented, the session is saved and the
\* turn goes on.
C9_CompactionCompletesAfterFailedFlush ==
  /\ call.flush_raised => pc \in {"summarize", "recall"}
  /\ (pc = "recall" /\ call.flush_raised) =>
       /\ Len(session.messages) < Len(call.before.messages)
       /\ session.compaction_count = call.before.compaction_count + 1
       /\ stored = session

(***************************************************************************)
(* Properties of the tool loop.                                            *)
(***************************************************************************)
\* C10: when the next model call is issued, every assistant message carrying
\* N tool calls is directly followed by exactly N tool messages, the i-th
\* with the id of the i-th requested call.
C10_ToolResultsBeforeNextModelCall ==
  pc = "llm" =>
    \A i \in 1..Len(llm_messages) :
      llm_messages[i].role = "assistant" =>
        LET calls == llm_messages[i].calls
            last == i + Len(calls)
        IN /\ last <= Len(llm_messages)
           /\ \A j \in 1..Len(calls) :
                /\ llm_messages[i + j].role = "tool"
                /\ llm_messages[i + j].id = calls[j]
           /\ last < Len(llm_messages) => llm_messages[last + 1].role # "tool"

\* the model is about to be called again after a response with two tool calls
C10_TwoCallsAnswered ==
  /\ pc = "llm"
  /\ \E i \in 1..Len(llm_messages) :
       /\ llm_messages[i].role = "assistant"
       /\ Len(llm_messages[i].calls) = 2

C12_FirstEmptyResponseRetried ==
  \A i \in 1..Len(responses) :
    (responses[i] = "empty" /\ \A j \in 1..(i - 1) : responses[j] # "empty") =>
      /\ \E k \in 1..Len(outbound) :
           /\ outbound[k] = Published(EMPTY_CONTENT_FALLBACK_USER)
           /\ pc = "done" => k < Len(outbound)
      /\ \E k \in 1..Len(llm_messages) :
           /\ llm_messages[k].role = "user"
           /\ llm_messages[k].content = EMPTY_CONTENT_RETRY_PROMPT
      /\ Len(responses) > i \/ pc = "llm"

\* C12 as amended: in every user-originated turn the first empty response
\* publishes the fallback notice and appends the 'please continue' message,
\* and the model is called again when that response was not the
\* max_iterations-th of the turn.
C12_FirstEmptyResponseOfUserTurnRetried ==
  kind = "user" =>
    \A i \in 1..Len(responses) :
      (responses[i] = "empty" /\ \A j \in 1..(i - 1) : responses[j] # "empty") =>
        /\ \E k \in 1..Len(outbound) :
             /\ outbound[k] = Published(EMPTY_CONTENT_FALLBACK_USER)
             /\ pc = "done" => k < Len(outbound)
        /\ \E k \in 1..Len(llm_messages) :
             /\ llm_messages[k].role = "user"
             /\ llm_messages[k].content = EMPTY_CONTENT_RETRY_PROMPT
        /\ i < cfg.max_iterations => (Len(responses) > i \/ pc = "llm")

\* a user turn whose first response was empty has called the model again
C12_CalledAgainAfterEmpty ==
  /\ kind = "user"
  /\ Len(responses) >= 2
  /\ responses[1] = "empty"

\* C13: a turn makes at most max_iterations model calls; a turn that leaves
\* the loop at the cap without a textual reply replies NO_CONTENT_REPLY,
\* persists the session with the new pair and returns its reply.
C13_CapThenGenericReply ==
  /\ iteration <= cfg.max_iterations
  /\ Len(responses) = iteration
  /\ (pc = "done" /\ final_content = "None" /\ iteration = cfg.max_iterations) =>
       /\ outbound[Len(outbound)] = Published(NO_CONTENT_REPLY)
       /\ stored = session
       /\ Len(session.messages) >= 2
       /\ session.messages[Len(session.messages) - 1].role = "user"
       /\ session.messages[Len(session.messages)].role = "assistant"

\* C13 as amended: the same, with NO_CONTENT_REPLY for a user-originated
\* turn and BACKGROUND_DONE_REPLY for a system-originated turn.
C13_CapThenGenericReplyOfThePath ==
  /\ iteration <= cfg.max_iterations
  /\ Len(responses) = iteration
  /\ (pc = "done" /\ final_content = "None" /\ iteration = cfg.max_iterations) =>
       /\ outbound[Len(outbound)] =
            Published(IF kind = "system" THEN BACKGROUND_DONE_REPLY ELSE NO_CONTENT_REPLY)
       /\ stored = session
       /\ Len(session.messages) >= 2
       /\ session.messages[Len(session.messages) - 1].role = "user"
       /\ session.messages[Len(session.messages)].role = "assistant"

\* a turn has ended at the cap of two iterations after two rounds of tool calls
C13_CapReached ==
  /\ pc = "done"
  /\ responses = <<"tool_calls", "tool_calls">>
  /\ iteration = cfg.max_iterations

C14_ReindexIffMemoryToolCalled ==
  [][/\ pc = "post" =>
          /\ reindex_calls' \in {reindex_calls, reindex_calls + 1}
          /\ (reindex_calls' = reindex_calls + 1) <=>
               \E i \in 1..Len(llm_messages) :
                 /\ llm_messages[i].role = "tool"
                 /\ llm_messages[i].name \in
                      {"remember_core", "append_daily", "organize_memory", "remember"}
     /\ pc \in {"recall", "llm", "tool", "reindex", "save"} =>
          reindex_calls' = reindex_calls]_vars

\* a turn that executed two append_daily calls has ended after one reindex
C14_TwoWritesOneReindex ==
  /\ pc = "done"
  /\ ~cfg.compaction_enabled
  /\ reindex_calls = 1
  /\ Cardinality({i \in 1..Len(llm_messages) :
                    /\ llm_messages[i].role = "tool"
                    /\ llm_messages[i].name = "append_daily"}) = 2

\* C15: the reindex a turn triggers is asynchronous to the turn: while the
\* index update is running the turn can persist its session and return its
\* reply, so an update that never finishes blocks neither.
C15_ReindexOffCriticalPath ==
  index_update = "running" => ENABLED PostTurn

\* C17: when the index update of the reindex that closes a turn raises, the
\* turn does not fail: the user/assistant pair is appended and saved, the
\* final reply is returned and no error reply is sent.
C17_ReindexFailureNotFatal ==
  index_update = "raised" =>
    /\ pc \in {"save", "done"}
    /\ \A k \in 1..Len(outbound) : outbound[k].content # "error"
    /\ pc = "done" =>
         /\ stored = session
         /\ Len(session.messages) >= 2
         /\ session.messages[Len(session.messages) - 1].role = "user"
         /\ session.messages[Len(session.messages)].role = "assistant"
         /\ outbound[Len(outbound)] = Published(FinalReply)

\* a turn has ended after its index update raised
C17_DoneAfterFailedReindex ==
  /\ pc = "done"
  /\ index_update = "raised"

(***************************************************************************)
(* Recall.                                                                 *)
(***************************************************************************)
\* C16: the recall step always returns to the turn; it does not call the
\* index for an empty or blank query; it returns None for such a query,
\* without the memory_search tool, when the search raises and when the
\* search finds nothing; and the context built after a recall of None has
\* no recall section.
C16_RecallDegradesToNone ==
  [][/\ pc = "recall" =>
          /\ pc' = "context"
          /\ Strip(msg.content) = "" => search' = "none"
          /\ ~cfg.memory_search_enabled => search' = "none"
          /\ (search' \in {"none", "empty", "raised"}) => memory_recall' = "None"
     /\ (pc = "context" /\ memory_recall = "None") =>
          /\ pc' \in {"llm", "post"}
          /\ llm_messages'[1].content.recall = {}]_vars

\* a blank query with the memory_search tool registered: the context was
\* built without a recall section and the model is about to be called
C16_BlankQueryContextBuilt ==
  /\ pc = "llm"
  /\ iteration = 0
  /\ cfg.memory_search_enabled
  /\ msg.content = "   "
  /\ memory_recall = "None"
  /\ llm_messages[1].content.recall = {}

(***************************************************************************)
(* Routing.                                                                *)
(***************************************************************************)
\* what the turn itself published: everything but the apology of run()
TurnOutbound == SelectSeq(outbound, LAMBDA o : o.content # "error")

\* C18: in a system turn the origin is the chat_id split at its first ":",
\* or ("cli", chat_id) without a ":"; the session key is
\* origin_channel:origin_chat_id; and every message the turn publishes is
\* addressed to the origin and never to channel "system".
C18_SystemTurnRoutedToOrigin ==
  kind = "system" =>
    /\ session_key = IF HasSeparator(msg.chat_id) THEN msg.chat_id
                     ELSE <<"cli", ":">> \o msg.chat_id
    /\ \A i \in 1..Len(TurnOutbound) :
         LET o == TurnOutbound[i].to IN
           /\ o.channel # <<"system">>
           /\ session_key = o.channel \o <<":">> \o o.chat_id
           /\ IF HasSeparator(msg.chat_id)
                THEN /\ ~HasSeparator(o.channel)
                     /\ o.channel \o <<":">> \o o.chat_id = msg.chat_id
                ELSE /\ o.channel = <<"cli">>
                     /\ o.chat_id = msg.chat_id

\* a system turn whose chat_id has two separators has announced a tool round
\* and returned its reply
C18_SystemTurnWithTwoSeparatorsDone ==
  /\ pc = "done"
  /\ kind = "system"
  /\ msg.chat_id = <<"cli", ":", "42", ":", "42">>
  /\ Len(outbound) = 2
  /\ outbound[1].content = "tool_progress"

\* C19: when a turn raises, the apology is addressed to the conversation the
\* message belongs to, also for a system message.
C19_ApologyReachesConversation ==
  pc = "failed" =>
    /\ outbound # <<>>
    /\ outbound[Len(outbound)].content = "error"
    /\ outbound[Len(outbound)].to = conv

(***************************************************************************)
(* More properties of the compaction call.                                 *)
(***************************************************************************)
\* C23: when compaction is disabled, or the session holds no more than
\* compaction_threshold messages, or compaction_keep_recent is at least the
\* number of messages, _maybe_compact_session returns at once: the session's
\* messages, summary and counters and the saved session are unchanged, no
\* flush starts and no model call is made.
C23_NoOpBelowThreshold ==
  [][(/\ pc = "compact"
      /\ \/ ~cfg.compaction_enabled
         \/ Len(session.messages) <= cfg.compaction_threshold
         \/ cfg.compaction_keep_recent >= Len(session.messages)) =>
       /\ pc' = "recall"
       /\ session' = session
       /\ stored' = stored
       /\ flush_log' = flush_log
       /\ llm_tools' = llm_tools
       /\ call' = NoCall]_vars

\* a call has returned at once on a session that holds exactly
\* compaction_threshold messages, with compaction enabled
C23_ReturnedAtThreshold ==
  /\ pc = "recall"
  /\ cfg.compaction_enabled
  /\ session.messages # <<>>
  /\ Len(session.messages) = cfg.compaction_threshold
  /\ cfg.compaction_keep_recent < Len(session.messages)
  /\ ~call.fired

\* the number of stored messages the current _maybe_compact_session call
\* started from
StoredBeforeCall ==
  IF call.fired THEN Len(call.before.messages) ELSE Len(session.messages)

\* C22: a session with stored messages is compacted in the turn whose
\* inbound message makes the conversation exceed compaction_threshold (with
\* threshold 2, keep_recent 1, the flush disabled and two stored messages:
\* in the turn of the third message): when the compaction check of that turn
\* has returned, the session is trimmed to keep_recent messages and carries
\* a summary.
C22_CompactedWhenInboundExceedsThreshold ==
  (/\ pc = "recall"
   /\ cfg.compaction_enabled
   /\ StoredBeforeCall >= 1
   /\ StoredBeforeCall <= cfg.compaction_threshold
   /\ StoredBeforeCall + 1 > cfg.compaction_threshold
   /\ cfg.compaction_keep_recent < StoredBeforeCall + 1) =>
    /\ call.fired
    /\ Len(session.messages) = cfg.compaction_keep_recent
    /\ session.compaction_summary # NoSummary

\* C26: compaction_count never decreases; it changes only by +1, in the
\* step that trims the session, once for each compaction that fires; and
\* memory_flush_compaction_count, once set, never exceeds compaction_count.
C26_CompactionCountStepsByOne ==
  [][/\ session'.compaction_count \in
          {session.compaction_count, session.compaction_count + 1}
     /\ (session'.compaction_count = session.compaction_count + 1)
          <=> (pc = "summarize")
     /\ (pc' = "recall" /\ call'.fired) =>
          session'.compaction_count = call'.before.compaction_count + 1
     /\ \A v \in session'.memory_flush_compaction_count :
          v <= session'.compaction_count]_vars

\* the second compaction of a session has completed after its flush raised
\* and its summarization failed, the first one having been flushed
C26_SecondCompactionAfterFailures ==
  /\ pc = "recall"
  /\ call.fired
  /\ call.flush_raised
  /\ call.summary_failed
  /\ session.compaction_count = 2
  /\ session.memory_flush_compaction_count = {0}

\* the last k elements of s, for every k >= 0
LastMessages(s, k) == SubSeq(s, Len(s) - k + 1, Len(s))

\* C27: when a compaction has fired, session.messages is exactly the last
\* compaction_keep_recent messages of the list the call started from, in
\* their order and unmodified.
C27_OnlyRecentMessagesKept ==
  (pc = "recall" /\ call.fired) =>
    session.messages =
      LastMessages(call.before.messages, cfg.compaction_keep_recent)

\* C28: when a compaction fires on a session that has a summary, the
\* summarizer is given one user message carrying that summary followed by
\* the old messages in order, and the session's summary becomes the one
\* summary computed from that list.
C28_PriorSummaryFoldedIn ==
  (/\ pc = "recall"
   /\ call.fired
   /\ call.before.compaction_summary # NoSummary) =>
    LET given == call.summarizer_input IN
      /\ Len(given) = Len(OldMessages(call.before, cfg.compaction_keep_recent)) + 1
      /\ given[1].role = "user"
      /\ given[1].content.prefix = "Prior summary: "
      /\ given[1].content.summary = call.before.compaction_summary
      /\ Tail(given) = OldMessages(call.before, cfg.compaction_keep_recent)
      /\ session.compaction_summary \in
           {[kind |-> "model", n |-> Len(given)],
            [kind |-> "unavailable", n |-> Len(given)]}

\* the second compaction of a session has folded the first summary and two
\* old messages into a new summary
C28_SecondSummaryFromFirst ==
  /\ pc = "recall"
  /\ call.fired
  /\ call.before.compaction_summary.kind = "model"
  /\ Len(call.summarizer_input) = 3
  /\ session.compaction_summary = [kind |-> "model", n |-> 3]

(***************************************************************************)
(* More properties of the memory flush.                                    *)
(***************************************************************************)
\* C29: the flush loop makes at most 5 model calls; every response before
\* the last one requested tools, so the loop stops at the first response
\* without tool calls, whatever that response carries; and after the 5th
\* call the loop is over.
C29_FlushLoopBounded ==
  (pc \in {"flush_llm", "flush_end"}) =>
    LET made == call.flush_responses IN
      /\ Len(made) = flush_iter
      /\ Len(made) <= 5
      /\ \A i \in 1..(Len(made) - 1) : made[i] = "tool_calls"
      /\ pc = "flush_llm" =>
           /\ Len(made) < 5
           /\ \A i \in 1..Len(made) : made[i] = "tool_calls"
      /\ pc = "flush_end" =>
           /\ made # <<>>
           /\ made[Len(made)] = "tool_calls" => Len(made) = 5

\* the loop is over after five responses that all requested tools
C29_FiveToolRounds ==
  /\ pc = "flush_end"
  /\ Len(call.flush_responses) = 5
  /\ call.flush_responses[5] = "tool_calls"

\* C30: when the flush loop has ended, the flush sets
\* memory_flush_compaction_count to compaction_count and saves the session,
\* changing nothing else of it and before any reindex; then it calls the
\* reindex once and returns; no step of the flush changes the messages, the
\* summary or compaction_count.
C30_FlushMarksSavesThenReindexes ==
  [][/\ pc = "flush_llm" => (session' = session /\ stored' = stored)
     /\ pc = "flush_end" =>
          /\ pc' = "flush_reindex"
          /\ session' = [session EXCEPT
                           !.memory_flush_compaction_count = {session.compaction_count}]
          /\ stored' = session'
          /\ reindex_calls' = reindex_calls
     /\ pc = "flush_reindex" =>
          /\ pc' = "summarize"
          /\ reindex_calls' = reindex_calls + 1
          /\ session' = session
          /\ stored' = stored
          /\ call'.flush_returned]_vars

\* a flush whose model replied at once and whose fallback note could not be
\* written has marked and saved the session and is about to reindex
C30_MarkedAfterFailedFallback ==
  /\ pc = "flush_reindex"
  /\ flush_iter = 1
  /\ ~append_daily_called
  /\ Len(call.fallback_notes) = 1
  /\ call.daily_writes = <<>>
  /\ session.memory_flush_compaction_count = {session.compaction_count}
  /\ stored = session
  /\ reindex_calls = 0


(***************************************************************************)
(* C25 (DailySpec): after any number of append_daily calls on one day,     *)
(* starting without a file, the daily file is the date header followed by  *)
(* every note in call order, a newline between two notes: the header       *)
(* stands at the start and nowhere else, and nothing appended is removed   *)
(* or reordered.                                                           *)
(***************************************************************************)
RECURSIVE JoinNotes(_)
JoinNotes(ns) ==
  IF Len(ns) = 0 THEN <<>>
  ELSE IF Len(ns) = 1 THEN ns[1]
  ELSE JoinNotes(SubSeq(ns, 1, Len(ns) - 1)) \o <<"\n">> \o ns[Len(ns)]

C25_DailyFileKeepsNotesInOrder ==
  /\ (appended = <<>>) => today_file = NoFile
  /\ (appended # <<>>) =>
       /\ today_file.exists
       /\ SubSeq(today_file.text, 1, Len(DateHeader)) = DateHeader
       /\ Cardinality({i \in 1..Len(today_file.text) :
                         today_file.text[i] = DateHeader[1]}) = 1
       /\ today_file.text = DateHeader \o JoinNotes(appended)

C25_ThreeNotesAppended ==
  /\ appended = <<<<"first">>, <<>>, <<"a", "\n", "b">>, <<"first">>>>
  /\ today_file.text =
       DateHeader \o <<"first", "\n", "\n", "a", "\n", "b", "\n", "first">>

(***************************************************************************)
(* C24 (ContextSpec): build_messages puts the recall under its 'Relevant   *)
(* memories' header, and the compaction summary under its own header, in   *)
(* the system message, which comes first; a recall or a summary that is    *)
(* None or empty adds no section; the history entries follow unchanged and *)
(* the user message is the current message alone, so that neither text is  *)
(* in the history or in the user message.                                  *)
(***************************************************************************)
C24_RecallAndSummaryInSystemMessageOnly ==
  built # <<>> =>
    LET given == build_args.history
        recall == build_args.memory_recall
        summary == build_args.compaction_summary
    IN /\ Len(built) = Len(given) + 2
       /\ built[1].role = "system"
       /\ built[1].content.recall =
            IF recall \in {"None", ""} THEN {}
            ELSE {[header |-> "## Relevant memories (from semantic search)",
                   text |-> recall]}
       /\ built[1].content.summary =
            IF summary \in {NoSummary, EmptySummary} THEN {}
            ELSE {[header |-> "## Prior conversation summary", text |-> summary]}
       /\ \A i \in 1..Len(given) : built[i + 1] = HistoryEntry(given[i])
       /\ built[Len(built)] = Entry("user", 0, "", build_args.current_message, <<>>)
       /\ \A i \in 2..Len(built) : built[i].role # "system"

C24_RecallWithEmptySummaryBuilt ==
  /\ build_args.memory_recall = "recall"
  /\ build_args.compaction_summary = EmptySummary
  /\ Len(build_args.history) = MaxBuildHistory
  /\ Len(built) = MaxBuildHistory + 2
  /\ built[1].content.summary = {}
  /\ built[1].content.recall # {}

(***************************************************************************)
(* C21 (DirectSpec): at most one turn is in progress at any time, turns    *)
(* started through process_direct while run() consumes the bus included,   *)
(* so that no two turns hold the same Session between their await points.  *)
(***************************************************************************)
TurnsInProgress == {t \in Tasks : task[t].pc # "idle"}

C21_OneTurnAtATime ==
  /\ Cardinality(TurnsInProgress) <= 1
  /\ \A t, u \in TurnsInProgress : t # u => task[t].key # task[u].key

(***************************************************************************)
(* C31: the 'please continue' prompt goes to the model only: no outbound   *)
(* message carries it and no stored message holds it; and no message that  *)
(* the loop appends to the turn's message list carries the fallback notice *)
(* shown to the user.  The stored assistant text is the reply the turn     *)
(* returns, which is the last outbound message.                            *)
(***************************************************************************)
C31_RetryPromptForModelOnly ==
  [][/\ \A k \in 1..Len(outbound') :
          outbound'[k].content # EMPTY_CONTENT_RETRY_PROMPT
     /\ \A i \in 1..Len(session'.messages) :
          session'.messages[i].content # EMPTY_CONTENT_RETRY_PROMPT
     /\ \A i \in 1..Len(stored'.messages) :
          stored'.messages[i].content # EMPTY_CONTENT_RETRY_PROMPT
     /\ pc \in {"post", "save"} => FinalReply # EMPTY_CONTENT_RETRY_PROMPT
     /\ pc \in {"llm", "tool"} =>
          \A i \in (Len(llm_messages) + 1)..Len(llm_messages') :
            llm_messages'[i].content # EMPTY_CONTENT_FALLBACK_USER]_vars

\* a turn that was retried after an empty response and then ended with the
\* fallback notice as its reply has been stored
C31_RetriedTurnStored ==
  /\ pc = "done"
  /\ responses = <<"empty", "empty">>
  /\ \E i \in 2..Len(llm_messages) :
       llm_messages[i].content = EMPTY_CONTENT_RETRY_PROMPT
  /\ Len(outbound) = 2
  /\ outbound[1].content = EMPTY_CONTENT_FALLBACK_USER
  /\ Len(stored.messages) >= 4

(***************************************************************************)
(* C32: the step that completes a turn appends exactly two messages to the *)
(* session, the user message and then the assistant message, and saves the *)
(* session; the user content of a system-originated turn is the inbound    *)
(* content behind the system marker; no other step between the context     *)
(* build and the end of the turn changes or saves the session, so tool     *)
(* calls, tool results and retry prompts are not persisted.                *)
(***************************************************************************)
C32_TurnStoresOnePair ==
  [][/\ (pc # "done" /\ pc' = "done") =>
          LET n == Len(session.messages) IN
            /\ Len(session'.messages) = n + 2
            /\ SubSeq(session'.messages, 1, n) = session.messages
            /\ session'.messages[n + 1].role = "user"
            /\ session'.messages[n + 1].content =
                 (IF kind = "system" THEN SystemMarked(msg.content) ELSE msg.content)
            /\ session'.messages[n + 2].role = "assistant"
            /\ session'.messages[n + 2].content = "reply"
            /\ session' = [session EXCEPT !.messages = session'.messages]
            /\ stored' = session'
     /\ (pc \in {"context", "llm", "tool", "post", "reindex", "save"} /\ pc' # "done") =>
          UNCHANGED <<session, stored>>]_vars

\* a system-originated turn with a round of tool calls has completed on a
\* fresh session
C32_SystemTurnWithToolsStored ==
  /\ pc = "done"
  /\ kind = "system"
  /\ responses # <<>>
  /\ responses[1] = "tool_calls"
  /\ Len(llm_messages) > 2
  /\ Len(stored.messages) = 2
  /\ stored.messages[1].content = "[System] msg"

(***************************************************************************)
(* C33: when a model call of the turn's loop raises, the turn ends without *)
(* being recorded: the failing step and the publication of the apology     *)
(* leave the session and its saved copy as they were, so neither message   *)
(* of the turn is stored, and no reindex follows; what the turn did before *)
(* stays: the session is the one the compaction check left and saved, and  *)
(* the record of the memory tools already run is kept.                     *)
(***************************************************************************)
C33_FailedTurnNotRecorded ==
  [][/\ (pc = "llm" /\ pc' = "failed") =>
          UNCHANGED <<session, stored, reindex_calls, index_update, memory_tools_called>>
     /\ pc = "failed" =>
          /\ pc' = "idle"
          /\ index_update = "none"
          /\ stored = session
          /\ UNCHANGED <<session, stored>>]_vars

\* the model call raised in a turn whose compaction check had compacted the
\* session
C33_FailedAfterCompaction ==
  /\ pc = "failed"
  /\ responses = <<"raise">>
  /\ cfg.compaction_keep_recent >= 1
  /\ session.compaction_count = 1
  /\ Len(session.messages) = cfg.compaction_keep_recent
  /\ stored = session

(***************************************************************************)
(* C34: with compaction enabled and keep_recent >= 1, the session never    *)
(* holds more than max(compaction_threshold, compaction_keep_recent) + 2   *)
(* messages, whatever the flushes and the summarizations do.               *)
(***************************************************************************)
C34_SessionBounded ==
  (cfg.compaction_enabled /\ cfg.compaction_keep_recent >= 1) =>
    LET larger == IF cfg.compaction_threshold > cfg.compaction_keep_recent
                    THEN cfg.compaction_threshold
                    ELSE cfg.compaction_keep_recent
    IN /\ Len(session.messages) <= larger + 2
       /\ Len(stored.messages) <= larger + 2

\* the bound is met after a turn whose compaction ran with a failed flush and
\* a failed summarization
C34_BoundMetAfterFailures ==
  /\ pc = "done"
  /\ cfg.compaction_enabled
  /\ cfg.compaction_memory_flush_enabled
  /\ cfg.compaction_keep_recent = 1
  /\ cfg.compaction_threshold = 0
  /\ session.compaction_count = 1
  /\ session.memory_flush_compaction_count = {}
  /\ session.compaction_summary.kind = "unavailable"
  /\ Len(session.messages) = 3

(***************************************************************************)
(* C35 (CatalogSpec): the tool list for the model is the registry's list   *)
(* without the definitions whose name is hidden: no definition in it has a *)
(* hidden name (memory_search among them), every other definition of the   *)
(* registry is in it once, in registry order, and a definition without a   *)
(* readable name is kept.                                                  *)
(***************************************************************************)
C35_CatalogHidesOnlyHiddenNames ==
  catalog.called =>
    LET name(d) == IF d.function # "" THEN d.function
                   ELSE IF d.name # "" THEN d.name ELSE "None"
        shown == {i \in 1..Len(registry) : name(registry[i]) \notin TOOLS_HIDDEN_FROM_LLM}
        \* the j-th definition shown, in registry order
        nth(j) == CHOOSE i \in shown : Cardinality({k \in shown : k < i}) = j - 1
    IN /\ Len(catalog.out) = Cardinality(shown)
       /\ \A j \in 1..Len(catalog.out) : catalog.out[j] = registry[nth(j)]
       /\ \A j \in 1..Len(catalog.out) :
            name(catalog.out[j]) \notin TOOLS_HIDDEN_FROM_LLM
       /\ \A i \in 1..Len(registry) :
            name(registry[i]) = "None" => \E j \in 1..Len(catalog.out) : catalog.out[j] = registry[i]

\* a registry of a definition without a name and a hidden one: the first is
\* kept and the second is not
C35_UnnamedKeptHiddenDropped ==
  /\ catalog.called
  /\ registry = <<[function |-> "", name |-> ""],
                  [function |-> "memory_search", name |-> "exec"]>>
  /\ catalog.out = <<[function |-> "", name |-> ""]>>

(***************************************************************************)
(* C36: the steps of a turn come in this order: the compaction check with  *)
(* its flush, summarization and save, then the recall search, then the     *)
(* context build, then the first model call.  The session is not changed   *)
(* between the end of the compaction check and the first model call, and   *)
(* the summary section of the context is the session's summary as the      *)
(* compaction check left it.                                               *)
(***************************************************************************)
CompactionSteps == {"compact", "flush_llm", "flush_end", "flush_reindex", "summarize"}

C36_CompactThenRecallThenContextThenModel ==
  [][/\ (pc \in CompactionSteps /\ pc' \notin CompactionSteps) =>
          pc' = "recall" /\ stored' = session'
     /\ pc' = "recall" => pc \in CompactionSteps
     /\ pc \in CompactionSteps => search' = "none" /\ llm_messages' = <<>>
     /\ pc = "recall" => pc' = "context" /\ llm_messages' = <<>>
     /\ pc' = "context" => pc = "recall"
     /\ pc = "context" =>
          /\ pc' = "llm"
          /\ responses' = <<>>
          /\ llm_messages'[1].content.summary =
               IF session.compaction_summary \in {NoSummary, EmptySummary} THEN {}
               ELSE {[header |-> "## Prior conversation summary",
                      text |-> session.compaction_summary]}
     /\ (pc' = "llm" /\ responses' = <<>>) => pc = "context"
     /\ (responses = <<>> /\ responses' # <<>>) => pc = "llm"
     /\ pc \in {"recall", "context"} => UNCHANGED <<session, stored>>]_vars

\* the first model call of a turn is about to be made with the summary that
\* the turn's compaction has just written
C36_FirstCallAfterCompaction ==
  /\ pc = "llm"
  /\ responses = <<>>
  /\ cfg.compaction_keep_recent >= 1
  /\ session.compaction_count = 1
  /\ Len(session.messages) = cfg.compaction_keep_recent
  /\ session.compaction_summary.kind = "model"
  /\ llm_messages[1].content.summary # {}

(***************************************************************************)
(* C37 (ChunkSpec): _chunk_text makes progress on every pass of its loop:  *)
(* each chunk starts at a line strictly after the start line of the chunk  *)
(* before it, whatever the line lengths, so that the loop ends.            *)
(***************************************************************************)
C37_EachChunkStartsLater ==
  \A i \in 1..(Len(chunks) - 1) : chunks[i + 1] > chunks[i]

(***************************************************************************)
(* C38 (OrganizeSpec): no remembered entry is lost: every content stored   *)
(* through append_core is, at any time, on a line of MEMORY.md or in an    *)
(* entry that organize_long_term moved to a daily file.                    *)
(***************************************************************************)
C38_NoRememberedEntryLost ==
  \A k \in 1..Len(remembered) :
    \/ \E b \in 1..Len(memory_file.blocks) :
         \E i \in 1..Len(memory_file.blocks[b]) :
           memory_file.blocks[b][i] = remembered[k]
    \/ \E m \in 1..Len(moved_daily) :
         \E i \in 1..Len(moved_daily[m]) : moved_daily[m][i] = remembered[k]

(***************************************************************************)
(* C39 (FeishuSpec): no posted placeholder is left untracked: a "thinking" *)
(* message that the chat shows and that was neither updated nor deleted    *)
(* has its message id in _thinking_messages, or in the send() that popped  *)
(* it, or is about to be recorded by its task.                             *)
(***************************************************************************)
C39_PostedPlaceholderTracked ==
  \A t \in 1..Len(thinking_posts) :
    thinking_posts[t] = "posted" =>
      \/ \E e \in _thinking_messages : e.message_id = t
      \/ \E s \in sending : s.thinking_message_id = t
      \/ timer_tasks[t] = "responded"

(***************************************************************************)
(* C40 (FeishuSpec): once a send() or _cancel_thinking_message returned,   *)
(* _thinking_messages has no entry until the next inbound message, and at  *)
(* any time at most one timer of the chat is pending, so that a send()     *)
(* cancels every timer that has not elapsed.                               *)
(***************************************************************************)
C40_OneTimerNoEntryAfterSend ==
  /\ entry_cleared = "returned" => _thinking_messages = {}
  /\ Cardinality(PendingTimers) <= 1
====
